---- MODULE Spec2Model ----
(***************************************************************************)
(* State-machine model of the DVF exploration client: the comparison set   *)
(* manager (models/comparison.model.js), the filter / compatibility engine *)
(* (models/filter.model.js) and the click handlers that route into them    *)
(* (controllers/map.controller.js).                                        *)
(*                                                                         *)
(* JavaScript objects are modelled by reference: a heap maps references to *)
(* object contents, and arrays hold references, so aliasing between the    *)
(* caller's object and a stored object is visible in the model.            *)
(***************************************************************************)
EXTENDS Integers, Sequences, FiniteSets, TLC

(***************************************************************************)
(* Bounds of the model                                                     *)
(***************************************************************************)
\* number of heap cells available for zone objects
MaxRef == 4
\* longest transaction list whose statistics are computed
MaxList == 3
\* longest transaction list used while the criteria are being edited
MaxEditList == 1
\* longest array of numbers given to median and computeQuantiles
MaxValues == 4
\* geometry loads that can be in flight at the same time
MaxPending == 1
\* layers the map can show at the same time
MaxLayers == 3

\* stops and catalog rows given to getTransportsServingZone
MaxStops == 2
MaxLines == 2
\* territories in the catalog given to analyserPouvoirAchat
MaxCatalog == 3
\* purchasing-power analyses that can be in flight at the same time
MaxAnalyses == 2

(***************************************************************************)
(* Values shared by the whole model                                        *)
(***************************************************************************)
\* JavaScript null and undefined where a string or an object is expected
Null == "null"
Undefined == "undefined"
\* JavaScript null, undefined, NaN and Infinity where a number is expected
\* (the numbers of the model are naturals, so these stand apart from them)
NullNum == -1
UndefNum == -2
NaN == -3
Infinity == -4
NonNumbers == {NullNum, UndefNum, NaN, Infinity}

\* !x for a numeric operand
Falsy(x) == x \in {0, NullNum, UndefNum, NaN}

\* ToNumber for a relational comparison: null counts as 0
RelNum(x) == IF x = NullNum THEN 0 ELSE x

\* a > b and a < b: false as soon as one operand is undefined or NaN
JsGT(a, b) ==
  IF a \in {UndefNum, NaN} \/ b \in {UndefNum, NaN} THEN FALSE
  ELSE IF a = Infinity THEN b # Infinity
  ELSE IF b = Infinity THEN FALSE
  ELSE RelNum(a) > RelNum(b)
JsLT(a, b) == JsGT(b, a)

\* a / b
JsDiv(a, b) ==
  IF a \in {UndefNum, NaN} \/ b \in {UndefNum, NaN} THEN NaN
  ELSE IF RelNum(b) = 0 THEN (IF RelNum(a) = 0 THEN NaN ELSE Infinity)
  ELSE RelNum(a) \div RelNum(b)

RoundPercent_floor(m, n) == (100 * m) \div n

\* Math.round(100 * m / n) for naturals m <= n, n > 0
RoundPercent(m, n) == (200 * m + n) \div (2 * n)

\* Array.prototype.sort((a, b) => a - b) on numbers
RECURSIVE InsertAsc(_, _)
InsertAsc(x, s) ==
  IF s = <<>> THEN <<x>>
  ELSE IF x <= Head(s) THEN <<x>> \o s
       ELSE <<Head(s)>> \o InsertAsc(x, Tail(s))
RECURSIVE SortAsc(_)
SortAsc(s) == IF s = <<>> THEN <<>> ELSE InsertAsc(Head(s), SortAsc(Tail(s)))

\* all sequences over S of length at most n
SeqUpTo(S, n) == UNION {[1..k -> S] : k \in 0..n}

(***************************************************************************)
(* Comparison set manager : models/comparison.model.js                     *)
(***************************************************************************)
VARIABLES
  heap,                 \* zone objects: reference -> content, or NoObj when free
  comparisonZones,      \* const comparisonZones = [] : array of references
  comparisonModeActive, \* let comparisonModeActive = false
  callerZone,           \* reference the caller of addZone still holds (0: none)
  snap,                 \* content each stored object had when it was added
  last                  \* last operation: its name, argument and return value

cmpVars == <<heap, comparisonZones, comparisonModeActive, callerZone, snap>>

(***************************************************************************)
(* Filter criteria : models/filter.model.js                                *)
(***************************************************************************)
VARIABLES
  filterObjs,    \* criteria objects: the module's activeFilters and the copy
                 \* made by the last getFilters()
  callerFilters, \* which object the caller of getFilters() holds ("none": none)
  inVentes,      \* the transaction list the statistics are computed from
  inTransports,  \* the transit lines serving the territory of that list
  inValues,      \* the array of numbers given to median / computeQuantiles
  inTransit,     \* the territory, stops and line catalog given to
                 \* getTransportsServingZone
  inAchat        \* the budget, prices and territory catalog given to
                 \* analyserPouvoirAchat

filterVars == <<filterObjs, callerFilters>>
inputVars == <<inVentes, inTransports, inValues, inTransit, inAchat>>

(***************************************************************************)
(* Navigation state : app/state.js, controllers/map.controller.js          *)
(***************************************************************************)
VARIABLES
  nav,        \* state.currentScale, currentDept, currentCommune, ... 
  layers,     \* state.layers : the layer of each level, or NoLayer
  mapLayers,  \* the layers the Leaflet map shows
  pending,    \* handlers suspended on a geometry load (await)
  indexes,    \* state.data.ventesByCommune and state.data.ventesBySection
  achat       \* currentBudget, currentResults, the results table and the
              \* analyses suspended on a geometry load

navVars == <<nav, layers, mapLayers, pending>>
dataVars == <<indexes>>
achatVars == <<achat>>

vars == <<cmpVars, filterVars, inputVars, navVars, dataVars, achatVars, last>>

MAX_ZONES == 3

Ref == 1..MaxRef
NoObj == [id |-> Null]

\* territory codes a zone can carry (unique across scales)
ZoneIds == {"75", "92", "75056", "75056AB"}
\* the type literal of each handler (the accent of the department literal is
\* dropped)
ZoneType(id) ==
  IF id \in {"75", "92"} THEN "departement"
  ELSE IF id = "75056" THEN "commune" ELSE "section"

ZoneName(id) ==
  IF id = "75" THEN "Paris"
  ELSE IF id = "92" THEN "Hauts-de-Seine"
  ELSE IF id = "75056" THEN "Paris 1er" ELSE "Paris 1er - Section AB"

\* the object literal a click handler passes to tryAddZone
ZoneData(id, name, stats, transports) ==
  [id |-> id, name |-> name, type |-> ZoneType(id), stats |-> stats,
   transports |-> transports]

\* contents of the sequence of stored zones
ZoneAt(h, zones, i) == h[zones[i]]
StoredIds(h, zones) == [i \in 1..Len(zones) |-> h[zones[i]].id]

canAddZone_le(zones) == Len(zones) <= MAX_ZONES

canAddZone(zones) == Len(zones) < MAX_ZONES

isZoneInComparison_name(h, zones, zoneId) ==
  \E i \in 1..Len(zones) : h[zones[i]].name = zoneId

isZoneInComparison(h, zones, zoneId) ==
  \E i \in 1..Len(zones) : h[zones[i]].id = zoneId

getComparisonCount(zones) == Len(zones)

getMaxZones == MAX_ZONES

\* addZone(zoneData): the array receives the reference it was given
addZone(h, zones, r) ==
  IF ~canAddZone(zones) THEN [ret |-> FALSE, zones |-> zones]
  ELSE IF isZoneInComparison(h, zones, h[r].id) THEN [ret |-> FALSE, zones |-> zones]
  ELSE [ret |-> TRUE, zones |-> Append(zones, r)]

\* findIndex: first index whose zone has the id, 0 when there is none (-1 in JS)
findIndex(h, zones, zoneId) ==
  IF \E i \in 1..Len(zones) : h[zones[i]].id = zoneId
  THEN CHOOSE i \in 1..Len(zones) :
         /\ h[zones[i]].id = zoneId
         /\ \A j \in 1..(i - 1) : h[zones[j]].id # zoneId
  ELSE 0

splice1_tail(s, index) == SubSeq(s, 1, index - 1)

\* splice(index, 1)
splice1(s, index) ==
  [i \in 1..(Len(s) - 1) |-> IF i < index THEN s[i] ELSE s[i + 1]]

removeZone(h, zones, zoneId) ==
  LET index == findIndex(h, zones, zoneId) IN
  IF index = 0 THEN [ret |-> FALSE, zones |-> zones]
  ELSE [ret |-> TRUE, zones |-> splice1(zones, index)]

clearComparison_pop(zones) ==
  IF zones = <<>> THEN <<>> ELSE SubSeq(zones, 1, Len(zones) - 1)

\* comparisonZones.length = 0
clearComparison(zones) == <<>>

toggleComparisonMode(active) == ~active

\* tryAddZone of the comparison controller: same checks, then addZone
tryAddZone(h, zones, r) ==
  IF ~canAddZone(zones) THEN [ret |-> FALSE, zones |-> zones]
  ELSE IF isZoneInComparison(h, zones, h[r].id) THEN [ret |-> FALSE, zones |-> zones]
  ELSE addZone(h, zones, r)

\* getComparisonZones(): a new array holding the same references
getComparisonZones(zones) == zones

\* a heap cell is free when no array and no caller refers to it
FreeRefs(zones, held) ==
  {r \in Ref : r # held /\ \A i \in 1..Len(zones) : zones[i] # r}
NewRef(zones, held) ==
  CHOOSE r \in FreeRefs(zones, held) : \A q \in FreeRefs(zones, held) : r <= q

\* cells that are no longer referenced are reclaimed
Collect(h, zones, held) ==
  [r \in Ref |-> IF r \in FreeRefs(zones, held) THEN NoObj ELSE h[r]]

(***************************************************************************)
(* Operations of the comparison manager as steps of the state machine      *)
(***************************************************************************)
Stats0 == [ventes |-> 0, maisons |-> 0, apparts |-> 0, prixMedian |-> 0]
Stats1 == [ventes |-> 1, maisons |-> 0, apparts |-> 1, prixMedian |-> 8000]

\* values a caller can write into a zone object it holds
MutableFields == {"name", "stats", "transports"}
NewValue(field) ==
  IF field = "name" THEN "renamed"
  ELSE IF field = "stats" THEN Stats1 ELSE <<"M1">>

CmpInit ==
  /\ heap = [r \in Ref |-> NoObj]
  /\ comparisonZones = <<>>
  /\ comparisonModeActive = FALSE
  /\ callerZone = 0
  /\ snap = [r \in Ref |-> NoObj]
  /\ last = [op |-> "init", arg |-> Null, ret |-> Null]

\* what the stored objects looked like when they were added
SnapAfter(zones, r, obj) ==
  [q \in Ref |->
     IF \E i \in 1..Len(zones) : zones[i] = q
     THEN (IF q = r THEN obj ELSE snap[q])
     ELSE NoObj]

\* a caller builds a zone object and passes it to addZone; with keep it
\* retains the object it passed after a successful call
CallAddZone(id, keep) ==
  LET r   == NewRef(comparisonZones, 0)
      obj == ZoneData(id, ZoneName(id), Stats0, <<>>)
      h1  == [heap EXCEPT ![r] = obj]
      res == addZone(h1, comparisonZones, r)
      held == IF res.ret /\ keep THEN r ELSE 0
  IN /\ comparisonZones' = res.zones
     /\ callerZone' = held
     /\ heap' = Collect(h1, res.zones, held)
     /\ snap' = IF res.ret THEN SnapAfter(res.zones, r, obj) ELSE snap
     /\ last' = [op |-> "addZone", arg |-> id, ret |-> res.ret]
     /\ UNCHANGED comparisonModeActive

\* the caller changes a field of the object it passed to addZone
CallerMutate(field) ==
  /\ callerZone # 0
  /\ heap[callerZone][field] # NewValue(field)
  /\ heap' = [heap EXCEPT ![callerZone][field] = NewValue(field)]
  /\ last' = [op |-> "mutate", arg |-> field, ret |-> Null]
  /\ UNCHANGED <<comparisonZones, comparisonModeActive, callerZone, snap>>

\* handleRemoveZone / removeZone(zoneId)
CallRemoveZone(id) ==
  LET res == removeZone(heap, comparisonZones, id)
  IN /\ comparisonZones' = res.zones
     /\ heap' = Collect(heap, res.zones, callerZone)
     /\ snap' = SnapAfter(res.zones, 0, NoObj)
     /\ last' = [op |-> "removeZone", arg |-> id, ret |-> res.ret]
     /\ UNCHANGED <<comparisonModeActive, callerZone>>

CallClearComparison ==
  LET zones == clearComparison(comparisonZones)
  IN /\ comparisonZones' = zones
     /\ heap' = Collect(heap, zones, callerZone)
     /\ snap' = SnapAfter(zones, 0, NoObj)
     /\ last' = [op |-> "clearComparison", arg |-> Null, ret |-> canAddZone(zones)]
     /\ UNCHANGED <<comparisonModeActive, callerZone>>

\* click on the "Mode Comparaison" button
CallToggleComparisonMode ==
  /\ comparisonModeActive' = toggleComparisonMode(comparisonModeActive)
  /\ last' = [op |-> "toggleComparisonMode", arg |-> Null,
              ret |-> toggleComparisonMode(comparisonModeActive)]
  /\ UNCHANGED <<heap, comparisonZones, callerZone, snap>>

CmpNext ==
  /\ \/ \E id \in ZoneIds : CallAddZone(id, FALSE)
     \/ \E id \in ZoneIds : CallRemoveZone(id)
     \/ CallClearComparison
     \/ CallToggleComparisonMode
  /\ UNCHANGED <<filterVars, inputVars, navVars, dataVars, achatVars>>

\* the same manager driven by a caller that keeps and later changes the
\* zone objects it passed
AliasIds == {"75", "75056"}

AliasNext ==
  /\ \/ \E id \in AliasIds : CallAddZone(id, TRUE)
     \/ \E f \in MutableFields : CallerMutate(f)
     \/ \E id \in AliasIds : CallRemoveZone(id)
     \/ CallClearComparison
  /\ UNCHANGED <<filterVars, inputVars, navVars, dataVars, achatVars>>

(***************************************************************************)
(* Filter / compatibility engine : models/filter.model.js                  *)
(***************************************************************************)
FilterKeys == {"budget", "surface", "type", "transport"}

\* const activeFilters = { budget: null, surface: null, type: null, transport: false }
DefaultFilters ==
  [budget |-> NullNum, surface |-> NullNum, type |-> Null, transport |-> FALSE]

\* the module-level criteria object
activeFilters == filterObjs["activeFilters"]

\* Object.assign(activeFilters, filters): the keys named by the argument are
\* overwritten, the others stay
setFilters_replace(cur, named, vals) ==
  [k \in FilterKeys |-> IF k \in named THEN vals[k] ELSE DefaultFilters[k]]

setFilters(cur, named, vals) ==
  [k \in FilterKeys |-> IF k \in named THEN vals[k] ELSE cur[k]]

\* { ...activeFilters } is a new object; the reference getFilters() returns
getFilters_alias == "activeFilters"

getFilters == "copy"

resetFilters(cur) ==
  [cur EXCEPT !.budget = NullNum, !.surface = NullNum, !.type = Null,
              !.transport = FALSE]

\* parseInt(filters.type)
parseInt(str) == IF str = "1" THEN 1 ELSE IF str = "2" THEN 2 ELSE NaN

\* entity.typeLocal?.includes(x); an entity without typeLocal carries NoArray
NoArray == <<UndefNum>>
OptIncludes(arr, x) ==
  IF arr = NoArray THEN FALSE
  ELSE x # NaN /\ \E i \in 1..Len(arr) : arr[i] = x

matchesFilters_ge(filters, entity, transports) ==
  IF filters.budget # NullNum /\ ~JsLT(entity.prixMedian, filters.budget) THEN FALSE
  ELSE IF filters.surface # NullNum /\ JsLT(entity.surfaceMin, filters.surface) THEN FALSE
  ELSE IF filters.type # Null /\ ~OptIncludes(entity.typeLocal, parseInt(filters.type))
       THEN FALSE
  ELSE IF filters.transport /\ Len(transports) = 0 THEN FALSE
  ELSE TRUE

matchesFilters(filters, entity, transports) ==
  IF filters.budget # NullNum /\ JsGT(entity.prixMedian, filters.budget) THEN FALSE
  ELSE IF filters.surface # NullNum /\ JsLT(entity.surfaceMin, filters.surface) THEN FALSE
  ELSE IF filters.type # Null /\ ~OptIncludes(entity.typeLocal, parseInt(filters.type))
       THEN FALSE
  ELSE IF filters.transport /\ Len(transports) = 0 THEN FALSE
  ELSE TRUE

venteKept_perM2(filters, vente, transports) ==
  IF Falsy(vente.surface_reelle_bati) \/ vente.surface_reelle_bati <= 0 THEN FALSE
  ELSE IF Falsy(vente.valeur_fonciere) \/ vente.valeur_fonciere <= 0 THEN FALSE
  ELSE IF /\ filters.budget # NullNum
          /\ vente.valeur_fonciere > filters.budget * vente.surface_reelle_bati
       THEN FALSE
  ELSE IF filters.surface # NullNum /\ vente.surface_reelle_bati < filters.surface
       THEN FALSE
  ELSE IF filters.type # Null /\ vente.type_local # parseInt(filters.type) THEN FALSE
  ELSE IF filters.transport /\ Len(transports) = 0 THEN FALSE
  ELSE TRUE

\* the callback of ventes.filter(...) in getFilteredStats
venteKept(filters, vente, transports) ==
  IF Falsy(vente.surface_reelle_bati) \/ vente.surface_reelle_bati <= 0 THEN FALSE
  ELSE IF Falsy(vente.valeur_fonciere) \/ vente.valeur_fonciere <= 0 THEN FALSE
  ELSE IF filters.budget # NullNum /\ vente.valeur_fonciere > filters.budget THEN FALSE
  ELSE IF filters.surface # NullNum /\ vente.surface_reelle_bati < filters.surface
       THEN FALSE
  ELSE IF filters.type # Null /\ vente.type_local # parseInt(filters.type) THEN FALSE
  ELSE IF filters.transport /\ Len(transports) = 0 THEN FALSE
  ELSE TRUE

medianOfFiltered_lower(prixAuM2) ==
  IF Len(prixAuM2) > 0 THEN prixAuM2[((Len(prixAuM2) - 1) \div 2) + 1] ELSE 0

\* prixAuM2[Math.floor(prixAuM2.length / 2)], 0 for an empty array
medianOfFiltered(prixAuM2) ==
  IF Len(prixAuM2) > 0 THEN prixAuM2[(Len(prixAuM2) \div 2) + 1] ELSE 0

getFilteredStats(filters, ventes, transports) ==
  LET ventesFiltered == SelectSeq(ventes, LAMBDA v : venteKept(filters, v, transports))
      prixAuM2 == SortAsc([i \in 1..Len(ventesFiltered) |->
                    JsDiv(ventesFiltered[i].valeur_fonciere,
                          ventesFiltered[i].surface_reelle_bati)])
  IN [ventes |-> Len(ventesFiltered),
      maisons |-> Len(SelectSeq(ventesFiltered, LAMBDA v : v.type_local = 1)),
      apparts |-> Len(SelectSeq(ventesFiltered, LAMBDA v : v.type_local = 2)),
      prixMedian |-> medianOfFiltered(prixAuM2),
      ventesFiltered |-> ventesFiltered]

venteCorrespond_anyType(filters, vente, transports) ==
  IF Falsy(vente.surface_reelle_bati) \/ vente.surface_reelle_bati <= 0 THEN FALSE
  ELSE IF Falsy(vente.valeur_fonciere) \/ vente.valeur_fonciere <= 0 THEN FALSE
  ELSE IF filters.budget # NullNum /\ vente.valeur_fonciere > filters.budget THEN FALSE
  ELSE IF filters.surface # NullNum /\ vente.surface_reelle_bati < filters.surface
       THEN FALSE
  ELSE IF filters.transport /\ Len(transports) = 0 THEN FALSE
  ELSE TRUE

\* the callback of ventes.filter(...) in calculateCompatibilityScore
venteCorrespond(filters, vente, transports) ==
  IF Falsy(vente.surface_reelle_bati) \/ vente.surface_reelle_bati <= 0 THEN FALSE
  ELSE IF Falsy(vente.valeur_fonciere) \/ vente.valeur_fonciere <= 0 THEN FALSE
  ELSE IF filters.budget # NullNum /\ vente.valeur_fonciere > filters.budget THEN FALSE
  ELSE IF filters.surface # NullNum /\ vente.surface_reelle_bati < filters.surface
       THEN FALSE
  ELSE IF filters.type # Null /\ vente.type_local # parseInt(filters.type) THEN FALSE
  ELSE IF filters.transport /\ Len(transports) = 0 THEN FALSE
  ELSE TRUE

hasActiveFilters_always(filters) == TRUE

hasActiveFilters(filters) ==
  \/ filters.budget # NullNum
  \/ filters.surface # NullNum
  \/ filters.type # Null
  \/ filters.transport = TRUE

calculateCompatibilityScore_unrounded(filters, ventes, transports) ==
  LET n == Len(SelectSeq(ventes, LAMBDA v : venteCorrespond(filters, v, transports)))
  IN [score |-> 100 * n, ventesTotal |-> Len(ventes), ventesCorrespondantes |-> n]

calculateCompatibilityScore(filters, ventes, transports) ==
  IF Len(ventes) = 0
  THEN [score |-> 0, ventesTotal |-> 0, ventesCorrespondantes |-> 0]
  ELSE IF ~hasActiveFilters(filters)
  THEN [score |-> 100, ventesTotal |-> Len(ventes),
        ventesCorrespondantes |-> Len(ventes)]
  ELSE LET n == Len(SelectSeq(ventes,
                      LAMBDA v : venteCorrespond(filters, v, transports)))
       IN [score |-> RoundPercent(n, Len(ventes)),
           ventesTotal |-> Len(ventes),
           ventesCorrespondantes |-> n]

\* an array argument that may be missing (null or undefined)
NoList == [missing |-> TRUE, list |-> <<>>]
SomeList(l) == [missing |-> FALSE, list |-> l]

\* calculateCompatibilityScore with `!ventes` taken into account
calculateCompatibilityScoreOf(filters, a, transports) ==
  IF a.missing
  THEN [score |-> 0, ventesTotal |-> 0, ventesCorrespondantes |-> 0]
  ELSE calculateCompatibilityScore(filters, a.list, transports)

(***************************************************************************)
(* Transaction records                                                     *)
(***************************************************************************)
\* a sale in the shape getFilteredStats reads (raw DVF column names)
RawVente(surface, valeur, typeLocal) ==
  [surface_reelle_bati |-> surface, valeur_fonciere |-> valeur,
   type_local |-> typeLocal,
   surface |-> UndefNum, type |-> Undefined, prix |-> UndefNum,
   dept |-> <<>>, commune |-> <<>>, section |-> <<>>]

\* unary + on a CSV field
ToNumber(str) ==
  CASE str = "" -> 0
    [] str = "0" -> 0
    [] str = "40" -> 40
    [] str = "50" -> 50
    [] str = "320000" -> 320000
    [] str = "360000" -> 360000
    [] str = "400000" -> 400000
    [] str = "450000" -> 450000
    [] OTHER -> NaN

\* the row callback of d3.csv in loadDVF; codes are sequences of characters
\* and a missing section is the empty sequence
LoadRow(d) ==
  LET surface == ToNumber(d.surface_reelle_bati)
      valeur  == ToNumber(d.valeur_fonciere)
  IN [dept |-> SubSeq(d.code_commune, 1, 2),
      commune |-> d.code_commune,
      section |-> IF Len(d.id_parcelle) > 0
                  THEN SubSeq(d.id_parcelle, 1, Len(d.id_parcelle) - 4)
                  ELSE <<>>,
      type |-> d.type_local,
      prix |-> JsDiv(valeur, surface),
      valeur_fonciere |-> valeur,
      surface |-> surface,
      surface_reelle_bati |-> UndefNum,
      type_local |-> UndefNum]

\* rows of data/dvf_idf_final.csv
CsvRow(commune, parcelle, typeLocal, surface, valeur) ==
  [code_commune |-> commune, id_parcelle |-> parcelle, type_local |-> typeLocal,
   surface_reelle_bati |-> surface, valeur_fonciere |-> valeur]

CsvFile ==
  << CsvRow(<<"7","5","0","5","6">>, <<"7","5","0","5","6","A","B","0","0","1","2">>,
            "Appartement", "40", "320000"),
     CsvRow(<<"9","2","0","1","2">>, <<>>, "Maison", "50", "0") >>

CsvRows == {CsvFile[i] : i \in DOMAIN CsvFile}

\* the records stored in the territory indexes
LoadedVentes == {LoadRow(d) : d \in CsvRows}

RawVentes ==
  { RawVente(40, 320000, 2), RawVente(50, 450000, 1), RawVente(40, 400000, 3),
    RawVente(0, 100000, 1), RawVente(50, 0, 2) }

Ventes == RawVentes \cup LoadedVentes

TransportLists == {<<>>, <<"M1">>}

BudgetValues == {NullNum, 9500, 400000}
SurfaceValues == {NullNum, 45}
TypeValues == {Null, "1", "2"}

Entities ==
  [prixMedian : {NullNum, 9500, 10000}, surfaceMin : {UndefNum, 40, 50},
   typeLocal : {NoArray, <<1>>, <<1, 2>>}]

(***************************************************************************)
(* Operations of the filter engine as steps of the state machine           *)
(***************************************************************************)
FilterInit ==
  /\ filterObjs = [o \in {"activeFilters", "copy"} |-> DefaultFilters]
  /\ callerFilters = "none"

\* any other call ends the caller's use of the object getFilters() gave it
DropCopy(active) ==
  [o \in {"activeFilters", "copy"} |-> IF o = "copy" THEN DefaultFilters ELSE active]

CallSetFilters(named, vals) ==
  /\ filterObjs' = DropCopy(setFilters(activeFilters, named, vals))
  /\ callerFilters' = "none"
  /\ last' = [op |-> "setFilters", arg |-> [named |-> named, vals |-> vals],
              ret |-> Null]

CallResetFilters ==
  /\ filterObjs' = DropCopy(resetFilters(activeFilters))
  /\ callerFilters' = "none"
  /\ last' = [op |-> "resetFilters", arg |-> Null, ret |-> Null]

CallGetFilters ==
  /\ filterObjs' = [DropCopy(activeFilters) EXCEPT ![getFilters] = activeFilters]
  /\ callerFilters' = getFilters
  /\ last' = [op |-> "getFilters", arg |-> Null, ret |-> activeFilters]

\* the caller writes into the object getFilters() returned
CallerMutateFilters(k, vals) ==
  /\ callerFilters # "none"
  /\ filterObjs[callerFilters][k] # vals[k]
  /\ filterObjs' = [filterObjs EXCEPT ![callerFilters][k] = vals[k]]
  /\ last' = [op |-> "mutateFilters", arg |-> k, ret |-> Null]
  /\ UNCHANGED callerFilters

CallMatchesFilters(entity, transports) ==
  /\ filterObjs' = DropCopy(activeFilters)
  /\ callerFilters' = "none"
  /\ last' = [op |-> "matchesFilters",
              arg |-> [entity |-> entity, transports |-> transports],
              ret |-> matchesFilters(activeFilters, entity, transports)]

CallGetFilteredStats(ventes, transports) ==
  /\ filterObjs' = DropCopy(activeFilters)
  /\ callerFilters' = "none"
  /\ last' = [op |-> "getFilteredStats",
              arg |-> [ventes |-> ventes, transports |-> transports],
              ret |-> getFilteredStats(activeFilters, ventes, transports)]

CallCalculateCompatibilityScore(ventes, transports) ==
  /\ filterObjs' = DropCopy(activeFilters)
  /\ callerFilters' = "none"
  /\ last' = [op |-> "calculateCompatibilityScore",
              arg |-> [ventes |-> ventes, transports |-> transports],
              ret |-> calculateCompatibilityScore(activeFilters, ventes, transports)]

\* calculateCompatibilityScore(null, transports)
CallCalculateCompatibilityScoreMissing(transports) ==
  /\ filterObjs' = DropCopy(activeFilters)
  /\ callerFilters' = "none"
  /\ last' = [op |-> "calculateCompatibilityScore(null)",
              arg |-> [transports |-> transports],
              ret |-> calculateCompatibilityScoreOf(activeFilters, NoList, transports)]

FilterValues ==
  [budget : BudgetValues, surface : SurfaceValues, type : TypeValues,
   transport : BOOLEAN]

\* the criteria are edited through the module's interface, and the pure
\* functions are called in between
FilterNext ==
  /\ \/ \E named \in SUBSET FilterKeys, vals \in FilterValues :
          /\ \A k \in FilterKeys \ named : vals[k] = DefaultFilters[k]
          /\ CallSetFilters(named, vals)
     \/ CallResetFilters
     \/ CallGetFilters
     \/ \E k \in FilterKeys, vals \in FilterValues : CallerMutateFilters(k, vals)
     \/ \E e \in Entities, t \in TransportLists : CallMatchesFilters(e, t)
     \/ \E l \in SeqUpTo(Ventes, MaxEditList), t \in TransportLists :
          CallGetFilteredStats(l, t)
     \/ \E l \in SeqUpTo(Ventes, MaxEditList), t \in TransportLists :
          CallCalculateCompatibilityScore(l, t)
  /\ UNCHANGED <<cmpVars, inputVars, navVars, dataVars, achatVars>>

\* the statistics of one territory (its transaction list and transit lines)
\* are recomputed while the filter form is applied and reset
StatsNext ==
  /\ \/ \E vals \in FilterValues : CallSetFilters(FilterKeys, vals)
     \/ CallResetFilters
     \/ CallGetFilteredStats(inVentes, inTransports)
     \/ CallCalculateCompatibilityScore(inVentes, inTransports)
  /\ UNCHANGED <<cmpVars, inputVars, navVars, dataVars, achatVars>>

\* the compatibility score of one territory, whose list may be missing,
\* while the filter form is applied and reset
ScoreNext ==
  /\ \/ \E vals \in FilterValues : CallSetFilters(FilterKeys, vals)
     \/ CallResetFilters
     \/ CallCalculateCompatibilityScore(inVentes, inTransports)
     \/ CallCalculateCompatibilityScoreMissing(inTransports)
  /\ UNCHANGED <<cmpVars, inputVars, navVars, dataVars, achatVars>>

(***************************************************************************)
(* Data prepared at start-up : loadDVF, computeStatsByDept, buildIndexes     *)
(***************************************************************************)
\* state.data.dvf = await loadDVF()
dvf == [i \in DOMAIN CsvFile |-> LoadRow(CsvFile[i])]

\* the characters of a territory code
CodeChars(id) ==
  CASE id = "75" -> <<"7","5">>
    [] id = "92" -> <<"9","2">>
    [] id = "75056" -> <<"7","5","0","5","6">>
    [] id = "75056AB" -> <<"7","5","0","5","6","A","B">>
    [] OTHER -> <<>>

median_upper(values) ==
  IF Len(values) = 0 THEN NullNum
  ELSE SortAsc(values)[(Len(values) \div 2) + 1]

\* median(values): null for an empty array, the middle of the sorted copy,
\* the mean of the two middle values for an even length (the values of the
\* model keep that mean whole)
median(values) ==
  LET sorted == SortAsc(values)
      mid == Len(sorted) \div 2
  IN IF Len(values) = 0 THEN NullNum
     ELSE IF Len(sorted) % 2 # 0 THEN sorted[mid + 1]
     ELSE (sorted[mid] + sorted[mid + 1]) \div 2

\* the entry computeStatsByDept(data) holds for a department that has sales
statsDeptOf(data, code) ==
  LET g == SelectSeq(data, LAMBDA d : d.dept = CodeChars(code))
  IN [ventes |-> Len(g),
      prixMedian |-> median([i \in 1..Len(g) |-> g[i].prix]),
      maisons |-> Len(SelectSeq(g, LAMBDA d : d.type = "Maison")),
      apparts |-> Len(SelectSeq(g, LAMBDA d : d.type = "Appartement"))]

\* map.get(k) ?? []
MapGet(m, k) == IF k \in DOMAIN m THEN m[k] ELSE <<>>

\* state.data.ventesByCommune.get(id) ?? []
ventesByCommune(id) == MapGet(indexes.ventesByCommune, CodeChars(id))

\* state.data.ventesBySection.get(id) ?? []
ventesBySection(id) == MapGet(indexes.ventesBySection, CodeChars(id))

afterGetFilteredStats_splice(ventes) ==
  IF ventes = <<>> THEN ventes ELSE Tail(ventes)

\* the array given to getFilteredStats, once it has returned: filter and map
\* build new arrays, and sort is applied to the mapped one
afterGetFilteredStats(ventes) == ventes

\* the array given to calculateCompatibilityScore, once it has returned:
\* filter builds a new array
afterCalculateCompatibilityScore(ventes) == ventes

\* the indexes after a handler has passed the list of one territory to
\* getFilteredStats and calculateCompatibilityScore
IndexesAfterStats(map, id) ==
  LET k == CodeChars(id)
  IN IF k \in DOMAIN indexes[map]
     THEN [indexes EXCEPT ![map][k] =
             afterCalculateCompatibilityScore(afterGetFilteredStats(@))]
     ELSE indexes

(***************************************************************************)
(* Geometry served to the map                                              *)
(***************************************************************************)
\* features of the departments file
Depts == {"75"}

\* loadCommunesGeo(codeDept).features, by id
CommunesOf(codeDept) == IF codeDept = "75" THEN {"75056"} ELSE {}

\* loadSectionsGeo(codeDept).features: id and properties.commune
SectionsGeo(codeDept) ==
  IF codeDept = "75" THEN {[id |-> "75056AB", commune |-> "75056"]} ELSE {}

\* the lines getTransportsServingZone(feature) finds for each territory
ServingLines(id) == IF id = "75" THEN <<"M1">> ELSE <<>>

(***************************************************************************)
(* Multi-scale navigation : controllers/map.controller.js                  *)
(***************************************************************************)
LayerIds == 1..MaxLayers

NoLayer == [id |-> 0, kind |-> "none", features |-> {}, cb |-> Null]
DeptLayer == [id |-> 1, kind |-> "dept", features |-> Depts, cb |-> Null]

\* L.geoJSON(...).addTo(map): a new layer object each time
FreeLayerIds == {n \in LayerIds : \A l \in mapLayers : l.id # n}
NewLayer(kind, features, cb) ==
  [id |-> CHOOSE n \in FreeLayerIds : \A m \in FreeLayerIds : n <= m,
   kind |-> kind, features |-> features, cb |-> cb]

\* clearLayer(map, layer): the layer leaves the map, the reference becomes null
clearLayer(shown, layer) == IF layer # NoLayer THEN shown \ {layer} ELSE shown

\* currentSections before the first commune was opened
NoSections == {Undefined}

\* state.js declares none of the navigation fields
NavInit ==
  /\ nav = [currentScale |-> Undefined, currentDept |-> Undefined,
            currentDeptName |-> Undefined, currentCommune |-> Undefined,
            currentCommuneName |-> Undefined, currentSections |-> NoSections]
  /\ layers = [dept |-> DeptLayer, commune |-> NoLayer, section |-> NoLayer]
  /\ mapLayers = {DeptLayer}
  /\ pending = <<>>

checkComparisonMode_off(active) == FALSE

\* checkComparisonMode() / isComparisonModeActive()
checkComparisonMode(active) == active

\* the four statistics a click handler copies into the zone it builds
ZoneStats(s) ==
  [ventes |-> s.ventes, maisons |-> s.maisons, apparts |-> s.apparts,
   prixMedian |-> s.prixMedian]

\* tryAddZone({...}) called by a click handler, which keeps no reference
ClickAdd(op, obj) ==
  LET r   == NewRef(comparisonZones, callerZone)
      h1  == [heap EXCEPT ![r] = obj]
      res == tryAddZone(h1, comparisonZones, r)
  IN /\ comparisonZones' = res.zones
     /\ heap' = Collect(h1, res.zones, callerZone)
     /\ snap' = IF res.ret THEN SnapAfter(res.zones, r, obj) ELSE snap
     /\ last' = [op |-> op, arg |-> obj.id, ret |-> res.ret]
     /\ UNCHANGED <<comparisonModeActive, callerZone>>

RemoveAt(s, i) == [j \in 1..(Len(s) - 1) |-> IF j < i THEN s[j] ELSE s[j + 1]]

\* onDepartmentClick up to its await (ventesByDept is not built by
\* buildIndexes, so the statistics are those of statsDept)
onDepartmentClick(codeDept) ==
  LET nomDept == ZoneName(codeDept)
      transports == ServingLines(codeDept)
      statsToDisplay == statsDeptOf(dvf, codeDept)
  IN /\ DeptLayer \in mapLayers
     /\ codeDept \in DeptLayer.features
     /\ UNCHANGED indexes
     /\ IF checkComparisonMode(comparisonModeActive)
        THEN /\ ClickAdd("onDepartmentClick",
                         ZoneData(codeDept, nomDept, statsToDisplay, transports))
             /\ UNCHANGED navVars
        ELSE /\ Len(pending) < MaxPending
             /\ mapLayers' = clearLayer(clearLayer(mapLayers, layers.commune),
                                        layers.section)
             /\ layers' = [layers EXCEPT !.commune = NoLayer, !.section = NoLayer]
             /\ pending' = Append(pending, [k |-> "communes", codeDept |-> codeDept,
                                            id |-> codeDept, nom |-> nomDept])
             /\ last' = [op |-> "onDepartmentClick", arg |-> codeDept, ret |-> Null]
             /\ UNCHANGED <<nav, cmpVars>>

\* onDepartmentClick after loadCommunesGeo has answered
onDepartmentClick_resume(i) ==
  /\ i \in 1..Len(pending)
  /\ pending[i].k = "communes"
  /\ FreeLayerIds # {}
  /\ LET p == pending[i]
         l == NewLayer("commune", CommunesOf(p.codeDept), p.codeDept)
     IN /\ nav' = [nav EXCEPT !.currentDept = p.codeDept,
                              !.currentDeptName = p.nom,
                              !.currentScale = "commune"]
        /\ layers' = [layers EXCEPT !.commune = l]
        /\ mapLayers' = mapLayers \cup {l}
        /\ pending' = RemoveAt(pending, i)
        /\ last' = [op |-> "communesLoaded", arg |-> p.codeDept, ret |-> Null]
        /\ UNCHANGED <<cmpVars, indexes>>

\* onCommuneClick up to its await; l is the displayed layer that was clicked
onCommuneClick(l, id) ==
  LET codeDept == l.cb
      ventes == ventesByCommune(id)
      transports == ServingLines(id)
      statsFiltered == getFilteredStats(activeFilters, ventes, transports)
  IN /\ l \in mapLayers
     /\ l.kind = "commune"
     /\ id \in l.features
     /\ indexes' = IndexesAfterStats("ventesByCommune", id)
     /\ IF checkComparisonMode(comparisonModeActive)
        THEN /\ ClickAdd("onCommuneClick",
                         ZoneData(id, ZoneName(id), ZoneStats(statsFiltered),
                                  transports))
             /\ UNCHANGED navVars
        ELSE /\ Len(pending) < MaxPending
             /\ mapLayers' = clearLayer(mapLayers, layers.section)
             /\ layers' = [layers EXCEPT !.section = NoLayer]
             /\ pending' = Append(pending, [k |-> "sections", codeDept |-> codeDept,
                                            id |-> id, nom |-> ZoneName(id)])
             /\ last' = [op |-> "onCommuneClick", arg |-> id, ret |-> Null]
             /\ UNCHANGED <<nav, cmpVars>>

\* onCommuneClick after loadSectionsGeo has answered
onCommuneClick_resume(i) ==
  /\ i \in 1..Len(pending)
  /\ pending[i].k = "sections"
  /\ FreeLayerIds # {}
  /\ LET p == pending[i]
         sections == {f.id : f \in {g \in SectionsGeo(p.codeDept) : g.commune = p.id}}
         l == NewLayer("section", sections, p.id)
     IN /\ nav' = [nav EXCEPT !.currentCommune = p.id,
                              !.currentCommuneName = p.nom,
                              !.currentDept = p.codeDept,
                              !.currentScale = "section",
                              !.currentSections = sections]
        /\ layers' = [layers EXCEPT !.section = l]
        /\ mapLayers' = mapLayers \cup {l}
        /\ pending' = RemoveAt(pending, i)
        /\ last' = [op |-> "sectionsLoaded", arg |-> p.id, ret |-> Null]
        /\ UNCHANGED <<cmpVars, indexes>>

\* onSectionClick: outside comparison mode it only zooms and fills the panel
onSectionClick(l, id) ==
  LET ventes == ventesBySection(id)
      transports == ServingLines(id)
      statsFiltered == getFilteredStats(activeFilters, ventes, transports)
  IN /\ l \in mapLayers
     /\ l.kind = "section"
     /\ id \in l.features
     /\ indexes' = IndexesAfterStats("ventesBySection", id)
     /\ IF checkComparisonMode(comparisonModeActive)
        THEN /\ ClickAdd("onSectionClick",
                         ZoneData(id, ZoneName(id), ZoneStats(statsFiltered),
                                  transports))
             /\ UNCHANGED navVars
        ELSE /\ last' = [op |-> "onSectionClick", arg |-> id, ret |-> Null]
             /\ UNCHANGED <<navVars, cmpVars>>

\* the map, the comparison button and the comparison panel driven by the user
NavNext ==
  /\ \/ \E d \in Depts : onDepartmentClick(d)
     \/ \E i \in 1..MaxPending : onDepartmentClick_resume(i)
     \/ \E l \in mapLayers, id \in ZoneIds : onCommuneClick(l, id)
     \/ \E i \in 1..MaxPending : onCommuneClick_resume(i)
     \/ \E l \in mapLayers, id \in ZoneIds : onSectionClick(l, id)
     \/ CallToggleComparisonMode /\ UNCHANGED <<navVars, dataVars>>
     \/ (\E id \in ZoneIds : CallRemoveZone(id)) /\ UNCHANGED <<navVars, dataVars>>
     \/ CallClearComparison /\ UNCHANGED <<navVars, dataVars>>
  /\ UNCHANGED <<filterVars, inputVars, achatVars>>

(***************************************************************************)
(* Filter form and re-rendering : controllers/filter.controller.js,        *)
(* rerenderCurrentLayer of controllers/map.controller.js                   *)
(***************************************************************************)
\* L.geoJSON(...).addTo(map) once the previous layer has left the map
FreeIdsIn(shown) == {n \in LayerIds : \A l \in shown : l.id # n}
NewLayerIn(shown, kind, features, cb) ==
  [id |-> CHOOSE n \in FreeIdsIn(shown) : \A m \in FreeIdsIn(shown) : n <= m,
   kind |-> kind, features |-> features, cb |-> cb]

\* rerenderCommunes up to its await
rerenderCommunes ==
  IF nav.currentDept = Undefined \/ nav.currentDeptName = Undefined
  THEN UNCHANGED <<navVars, indexes>>
  ELSE /\ Len(pending) < MaxPending
       /\ mapLayers' = clearLayer(mapLayers, layers.commune)
       /\ layers' = [layers EXCEPT !.commune = NoLayer]
       /\ pending' = Append(pending, [k |-> "rerender",
                                      codeDept |-> nav.currentDept,
                                      id |-> nav.currentDept,
                                      nom |-> nav.currentDeptName])
       /\ UNCHANGED <<nav, indexes>>

\* rerenderCommunes after loadCommunesGeo has answered; the click callback of
\* the new layer reads state.currentDept
rerenderCommunes_resume(i) ==
  /\ i \in 1..Len(pending)
  /\ pending[i].k = "rerender"
  /\ FreeLayerIds # {}
  /\ LET p == pending[i]
         l == NewLayer("commune", CommunesOf(p.codeDept), nav.currentDept)
     IN /\ layers' = [layers EXCEPT !.commune = l]
        /\ mapLayers' = mapLayers \cup {l}
        /\ pending' = RemoveAt(pending, i)
        /\ last' = [op |-> "communesRerendered", arg |-> p.codeDept, ret |-> Null]
        /\ UNCHANGED <<nav, indexes, cmpVars, filterVars>>

\* rerenderSections: it has no await
rerenderSections ==
  IF \/ nav.currentSections = NoSections
     \/ nav.currentCommuneName = Undefined
     \/ nav.currentCommune = Undefined
  THEN UNCHANGED <<navVars, indexes>>
  ELSE LET shown == clearLayer(mapLayers, layers.section)
           l == NewLayerIn(shown, "section", nav.currentSections,
                           nav.currentCommune)
       IN /\ FreeIdsIn(shown) # {}
          /\ mapLayers' = shown \cup {l}
          /\ layers' = [layers EXCEPT !.section = l]
          /\ indexes' = IndexesAfterStats("ventesByCommune", nav.currentCommune)
          /\ UNCHANGED <<nav, pending>>

\* rerenderCurrentLayer(): currentScale is never 'department'
rerenderCurrentLayer ==
  IF nav.currentScale = "commune" THEN rerenderCommunes
  ELSE IF nav.currentScale = "section" THEN rerenderSections
  ELSE UNCHANGED <<navVars, indexes>>

\* the values the filter form can hold when it is applied
FormValues ==
  {DefaultFilters,
   [budget |-> 400000, surface |-> NullNum, type |-> Null, transport |-> FALSE],
   [budget |-> 9500, surface |-> NullNum, type |-> "1", transport |-> FALSE],
   [budget |-> NullNum, surface |-> 45, type |-> "2", transport |-> TRUE]}

\* click on "apply": setFilters({budget, surface, type, transport}), then
\* rerenderCurrentLayer()
applyFilters(vals) ==
  /\ filterObjs' = DropCopy(setFilters(activeFilters, FilterKeys, vals))
  /\ callerFilters' = "none"
  /\ rerenderCurrentLayer
  /\ last' = [op |-> "applyFilters", arg |-> vals, ret |-> Null]
  /\ UNCHANGED cmpVars

\* click on "reset": resetFilters(), then rerenderCurrentLayer()
resetFiltersClick ==
  /\ filterObjs' = DropCopy(resetFilters(activeFilters))
  /\ callerFilters' = "none"
  /\ rerenderCurrentLayer
  /\ last' = [op |-> "resetFiltersClick", arg |-> Null, ret |-> Null]
  /\ UNCHANGED cmpVars

\* the map and the filter form driven by the user, outside comparison mode
MapNext ==
  /\ \/ (\E d \in Depts : onDepartmentClick(d)) /\ UNCHANGED filterVars
     \/ (\E i \in 1..MaxPending : onDepartmentClick_resume(i))
          /\ UNCHANGED filterVars
     \/ (\E l \in mapLayers, id \in ZoneIds : onCommuneClick(l, id))
          /\ UNCHANGED filterVars
     \/ (\E i \in 1..MaxPending : onCommuneClick_resume(i))
          /\ UNCHANGED filterVars
     \/ (\E l \in mapLayers, id \in ZoneIds : onSectionClick(l, id))
          /\ UNCHANGED filterVars
     \/ \E vals \in FormValues : applyFilters(vals)
     \/ resetFiltersClick
     \/ \E i \in 1..MaxPending : rerenderCommunes_resume(i)
  /\ UNCHANGED <<inputVars, achatVars>>

(***************************************************************************)
(* Aggregations : computeStats, computeStatsByDept, aggregateMedianByKey,  *)
(* buildIndexes; utils.js : computeQuantiles, heatPalette,                 *)
(* heatColorQuantile                                                       *)
(***************************************************************************)
\* a code used as a condition: null and the empty string are falsy
Truthy(code) == code # <<>>

\* a Map or a plain object used as a dictionary, and one without entries
EmptyMap == [k \in {} |-> <<>>]

PushTo_replace(g, k, x) ==
  [j \in DOMAIN g \cup {k} |-> IF j = k THEN <<x>> ELSE g[j]]

\* if (!g[k]) g[k] = []; g[k].push(x)
PushTo(g, k, x) ==
  IF k \in DOMAIN g THEN [g EXCEPT ![k] = Append(@, x)]
  ELSE [j \in DOMAIN g \cup {k} |-> IF j = k THEN <<x>> ELSE g[j]]

PrixOf(l) == [i \in 1..Len(l) |-> l[i].prix]

computeStats_count(ventes) == Len(ventes) + 1

\* ventes.length in computeStats
computeStats_length(ventes) == Len(ventes)

\* computeStats(ventes) for an array
computeStats(ventes) ==
  IF Len(ventes) = 0
  THEN [ventes |-> 0, prixMedian |-> NullNum, maisons |-> 0, apparts |-> 0,
        prixMaisons |-> NullNum, prixApparts |-> NullNum]
  ELSE LET maisons == SelectSeq(ventes, LAMBDA v : v.type = "Maison")
           apparts == SelectSeq(ventes, LAMBDA v : v.type = "Appartement")
       IN [ventes |-> computeStats_length(ventes),
           prixMedian |-> median(PrixOf(ventes)),
           maisons |-> Len(maisons),
           apparts |-> Len(apparts),
           prixMaisons |-> IF Len(maisons) # 0 THEN median(PrixOf(maisons))
                           ELSE NullNum,
           prixApparts |-> IF Len(apparts) # 0 THEN median(PrixOf(apparts))
                           ELSE NullNum]

\* the forEach of computeStatsByDept: g[d.dept] accumulates the lines
RECURSIVE groupByDept(_, _)
groupByDept(data, g) ==
  IF data = <<>> THEN g
  ELSE groupByDept(Tail(data), PushTo(g, Head(data).dept, Head(data)))

\* computeStatsByDept(data) for an array
computeStatsByDept(data) ==
  LET g == groupByDept(data, EmptyMap)
  IN [k \in DOMAIN g |->
        [ventes |-> Len(g[k]),
         prixMedian |-> median(PrixOf(g[k])),
         maisons |-> Len(SelectSeq(g[k], LAMBDA d : d.type = "Maison")),
         apparts |-> Len(SelectSeq(g[k], LAMBDA d : d.type = "Appartement"))]]

\* the forEach of aggregateMedianByKey: lines without the key are skipped
RECURSIVE groupPrixByKey(_, _, _)
groupPrixByKey(data, key, g) ==
  IF data = <<>> THEN g
  ELSE LET d == Head(data)
       IN groupPrixByKey(Tail(data), key,
            IF ~Truthy(d[key]) THEN g ELSE PushTo(g, d[key], d.prix))

\* aggregateMedianByKey(data, key) for an array
aggregateMedianByKey(data, key) ==
  LET g == groupPrixByKey(data, key, EmptyMap)
  IN [k \in DOMAIN g |-> median(g[k])]

\* the loop of buildIndexes
RECURSIVE buildIndexes_loop(_, _, _)
buildIndexes_loop(data, byCommune, bySection) ==
  IF data = <<>>
  THEN [ventesByCommune |-> byCommune, ventesBySection |-> bySection]
  ELSE LET v == Head(data)
       IN buildIndexes_loop(Tail(data),
            IF Truthy(v.commune) THEN PushTo(byCommune, v.commune, v) ELSE byCommune,
            IF Truthy(v.section) THEN PushTo(bySection, v.section, v) ELSE bySection)

\* buildIndexes(data) for an array: return { ventesByCommune, ventesBySection }
buildIndexes(data) == buildIndexes_loop(data, EmptyMap, EmptyMap)

\* the outcome of a call: a TypeError or a returned value
Threw == [threw |-> TRUE, value |-> Null]
Returned(v) == [threw |-> FALSE, value |-> v]

\* the same functions called with an argument that may be null / undefined:
\* computeStats tests `!ventes`; the others call forEach, filter or iterate
\* on what they are given
computeStatsOf(a) ==
  Returned(IF a.missing THEN computeStats(<<>>) ELSE computeStats(a.list))
computeStatsByDeptOf(a) ==
  IF a.missing THEN Threw ELSE Returned(computeStatsByDept(a.list))
aggregateMedianByKeyOf(a, key) ==
  IF a.missing THEN Threw ELSE Returned(aggregateMedianByKey(a.list, key))
buildIndexesOf(a) ==
  IF a.missing THEN Threw ELSE Returned(buildIndexes(a.list))
getFilteredStatsOf(filters, a, transports) ==
  IF a.missing THEN Threw ELSE Returned(getFilteredStats(filters, a.list, transports))

computeQuantiles_ceil(values, n) ==
  IF Len(values) = 0 THEN <<>>
  ELSE [i \in 1..(n - 1) |->
          SortAsc(values)[((i * Len(values) + n - 1) \div n)]]

\* computeQuantiles(values, n): sorted[Math.floor((i / n) * sorted.length)],
\* 0-based, for i = 1 .. n-1 (for the class counts of the model the floating
\* point product has the same floor as the exact quotient)
computeQuantiles(values, n) ==
  IF Len(values) = 0 THEN <<>>
  ELSE LET sorted == SortAsc(values)
       IN [i \in 1..(n - 1) |-> sorted[((i * Len(sorted)) \div n) + 1]]

\* heatPalette()
heatPalette ==
  << "#006400", "#1e8f3a", "#6cc04a", "#b6e43a", "#ffd700", "#ffb000", "#ff8c00",
     "#ff3b1f", "#8b0000" >>

\* palette[i] for a 0-based index
PaletteAt(i) == IF i + 1 \in DOMAIN heatPalette THEN heatPalette[i + 1] ELSE Undefined

heatColorQuantile_lt(value, quantiles) ==
  IF value \in {NullNum, UndefNum, NaN} THEN "#cccccc"
  ELSE LET hits == {i \in 1..Len(quantiles) : value < quantiles[i]}
       IN IF hits # {}
          THEN PaletteAt((CHOOSE i \in hits : \A j \in hits : i <= j) - 1)
          ELSE PaletteAt(Len(heatPalette) - 1)

\* heatColorQuantile(value, quantiles)
heatColorQuantile(value, quantiles) ==
  IF value \in {NullNum, UndefNum, NaN} THEN "#cccccc"
  ELSE LET hits == {i \in 1..Len(quantiles) : value <= quantiles[i]}
       IN IF hits # {}
          THEN PaletteAt((CHOOSE i \in hits : \A j \in hits : i <= j) - 1)
          ELSE PaletteAt(Len(heatPalette) - 1)

\* rows of the DVF file used for the aggregations: two sales of section
\* 75056AB, one sale of the same commune without a parcel, and sales of
\* another department, one of them neither a house nor an apartment
AggCsvRows ==
  CsvRows \cup
  { CsvRow(<<"7","5","0","5","6">>, <<"7","5","0","5","6","A","B","0","0","1","3">>,
           "Maison", "40", "360000"),
    CsvRow(<<"7","5","0","5","6">>, <<>>, "Appartement", "40", "400000"),
    CsvRow(<<"9","2","0","1","2">>, <<>>, "Local", "50", "0") }

AggVentes == {LoadRow(d) : d \in AggCsvRows}

\* numbers given to median, computeQuantiles and heatColorQuantile
Values == {2, 4, 6}
HeatValues == {NullNum, UndefNum, NaN, 0, 2, 3, 4, 5, 6, 7}
\* class counts given to computeQuantiles (9 is the default)
QuantileClasses == {1, 2, 4, 9}
IndexKeys == {"commune", "section"}

(***************************************************************************)
(* The aggregations and the utilities as steps of the state machine        *)
(***************************************************************************)
\* the list, or no list at all
ListArgs == {SomeList(inVentes), NoList}

CallMedian ==
  /\ last' = [op |-> "median", arg |-> inValues, ret |-> median(inValues)]
  /\ UNCHANGED filterVars

CallComputeQuantiles(n) ==
  /\ last' = [op |-> "computeQuantiles", arg |-> [values |-> inValues, n |-> n],
              ret |-> computeQuantiles(inValues, n)]
  /\ UNCHANGED filterVars

CallHeatColorQuantile(value, quantiles) ==
  /\ last' = [op |-> "heatColorQuantile",
              arg |-> [value |-> value, quantiles |-> quantiles],
              ret |-> heatColorQuantile(value, quantiles)]
  /\ UNCHANGED filterVars

CallComputeStats(a) ==
  /\ last' = [op |-> "try computeStats", arg |-> a, ret |-> computeStatsOf(a)]
  /\ UNCHANGED filterVars

CallComputeStatsByDept(a) ==
  /\ last' = [op |-> "try computeStatsByDept", arg |-> a,
              ret |-> computeStatsByDeptOf(a)]
  /\ UNCHANGED filterVars

CallAggregateMedianByKey(a, key) ==
  /\ last' = [op |-> "try aggregateMedianByKey", arg |-> [data |-> a, key |-> key],
              ret |-> aggregateMedianByKeyOf(a, key)]
  /\ UNCHANGED filterVars

CallBuildIndexes(a) ==
  /\ last' = [op |-> "try buildIndexes", arg |-> a, ret |-> buildIndexesOf(a)]
  /\ UNCHANGED filterVars

CallGetFilteredStatsOf(a, transports) ==
  /\ last' = [op |-> "try getFilteredStats", arg |-> a,
              ret |-> getFilteredStatsOf(activeFilters, a, transports)]
  /\ UNCHANGED filterVars

CallCalculateCompatibilityScoreOf(a, transports) ==
  /\ last' = [op |-> "try calculateCompatibilityScore", arg |-> a,
              ret |-> Returned(calculateCompatibilityScoreOf(activeFilters, a,
                                                            transports))]
  /\ UNCHANGED filterVars

AggNext ==
  /\ \/ CallMedian
     \/ \E n \in QuantileClasses : CallComputeQuantiles(n)
     \/ \E v \in HeatValues, q \in {inValues, computeQuantiles(inValues, 9)} :
          CallHeatColorQuantile(v, q)
     \/ \E a \in ListArgs : CallComputeStats(a)
     \/ \E a \in ListArgs : CallComputeStatsByDept(a)
     \/ \E a \in ListArgs, key \in IndexKeys : CallAggregateMedianByKey(a, key)
     \/ \E a \in ListArgs : CallBuildIndexes(a)
     \/ \E a \in ListArgs : CallGetFilteredStatsOf(a, inTransports)
     \/ \E a \in ListArgs : CallCalculateCompatibilityScoreOf(a, inTransports)
  /\ UNCHANGED <<cmpVars, inputVars, navVars, dataVars, achatVars>>

\* the functions are given either a list of transactions or an array of
\* numbers
(***************************************************************************)
(* Transit lines serving a territory : models/accessibilite.model.js       *)
(*                                                                         *)
(* Positions are points of a grid whose step is GridStep metres, x being   *)
(* the longitude and y the latitude; distances are measured on the grid.   *)
(* Strings that are formatted and parsed are sequences of characters.      *)
(* The file defines getTransportsServingZone twice: which definition the   *)
(* application runs is a choice made once, before the first call.          *)
(***************************************************************************)
GridStep == 250

DISTANCE_MAX_M == 1000

\* str.toUpperCase()
UpperChar(c) ==
  CASE c = "r" -> "R" [] c = "e" -> "E" [] c = "b" -> "B" [] c = "u" -> "U"
    [] c = "s" -> "S" [] OTHER -> c
ToUpperCase(str) == [i \in 1..Len(str) |-> UpperChar(str[i])]

\* `${mode}|${ligne}`
Cle(mode, ligne) == mode \o <<"|">> \o ligne

\* cle.split("|")
RECURSIVE Split(_)
Split(str) ==
  IF \A i \in 1..Len(str) : str[i] # "|" THEN <<str>>
  ELSE LET p == CHOOSE i \in 1..Len(str) :
                  str[i] = "|" /\ \A j \in 1..(i - 1) : str[j] # "|"
       IN <<SubSeq(str, 1, p - 1)>> \o Split(SubSeq(str, p + 1, Len(str)))

\* const [mode, ligne] = cle.split("|")
SplitCle(cle) ==
  LET parts == Split(cle)
  IN [mode |-> parts[1], ligne |-> IF Len(parts) >= 2 THEN parts[2] ELSE <<>>]

\* set.add(x) on a Set, which iterates in insertion order
SetAdd(set, x) ==
  IF \E i \in 1..Len(set) : set[i] = x THEN set ELSE Append(set, x)
SetHas(set, x) == \E i \in 1..Len(set) : set[i] = x

\* every ring of a Polygon or MultiPolygon geometry, and every position
RingsOf(geometrie) ==
  IF geometrie.type = "Polygon"
  THEN {geometrie.coordinates[r] : r \in DOMAIN geometrie.coordinates}
  ELSE UNION {{geometrie.coordinates[p][r] : r \in DOMAIN geometrie.coordinates[p]} :
                p \in DOMAIN geometrie.coordinates}
Positions(geometrie) ==
  UNION {{ring[i] : i \in DOMAIN ring} : ring \in RingsOf(geometrie)}

SetMin(S) == CHOOSE m \in S : \A n \in S : m <= n
SetMax(S) == CHOOSE m \in S : \A n \in S : m >= n

\* L.geoJSON(zoneFeature).getBounds().getCenter(): the centre of the bounding
\* box, here with both coordinates doubled
centreZone(zoneFeature) ==
  LET xs == {p[1] : p \in Positions(zoneFeature.geometry)}
      ys == {p[2] : p \in Positions(zoneFeature.geometry)}
  IN <<SetMin(xs) + SetMax(xs), SetMin(ys) + SetMax(ys)>>

\* centreZone.distanceTo(positionStation) <= maxM
distanceWithin(centre2, lng, lat, maxM) ==
  GridStep * GridStep
    * ((2 * lng - centre2[1]) * (2 * lng - centre2[1])
       + (2 * lat - centre2[2]) * (2 * lat - centre2[2])) <= 4 * maxM * maxM

\* lng < ((xj - xi) * (lat - yi)) / (yj - yi) + xi, for yj # yi
LeftOfEdge(lng, lat, xi, yi, xj, yj) ==
  IF yj - yi > 0
  THEN (lng - xi) * (yj - yi) < (xj - xi) * (lat - yi)
  ELSE (lng - xi) * (yj - yi) > (xj - xi) * (lat - yi)

\* pointDansContour(lng, lat, contourPolygone): ray casting
pointDansContour(lng, lat, contourPolygone) ==
  LET n == Len(contourPolygone)
      coupe(i) ==
        LET j  == IF i = 1 THEN n ELSE i - 1
            xi == contourPolygone[i][1]
            yi == contourPolygone[i][2]
            xj == contourPolygone[j][1]
            yj == contourPolygone[j][2]
        IN /\ (yi > lat) # (yj > lat)
           /\ LeftOfEdge(lng, lat, xi, yi, xj, yj)
  IN Cardinality({i \in 1..n : coupe(i)}) % 2 = 1

\* pointDansPolygoneGeoJSON(lng, lat, geometrie): only the first ring of a
\* polygon is read
pointDansPolygoneGeoJSON(lng, lat, geometrie) ==
  IF geometrie.type = "Polygon"
  THEN pointDansContour(lng, lat, geometrie.coordinates[1])
  ELSE IF geometrie.type = "MultiPolygon"
  THEN \E p \in DOMAIN geometrie.coordinates :
         pointDansContour(lng, lat, geometrie.coordinates[p][1])
  ELSE FALSE

\* the test turf's booleanPointInPolygon applies to one ring: a point of the
\* ring's boundary answers !ignoreBoundary
inRing(lng, lat, ring, ignoreBoundary) ==
  LET n == Len(ring) - 1   \* the closing position is dropped
      onBoundary ==
        \E i \in 1..n :
          LET j  == IF i = 1 THEN n ELSE i - 1
              xi == ring[i][1]
              yi == ring[i][2]
              xj == ring[j][1]
              yj == ring[j][2]
          IN /\ lat * (xi - xj) + yi * (xj - lng) + yj * (lng - xi) = 0
             /\ (xi - lng) * (xj - lng) <= 0
             /\ (yi - lat) * (yj - lat) <= 0
  IN IF onBoundary THEN ~ignoreBoundary
     ELSE pointDansContour(lng, lat, SubSeq(ring, 1, n))

\* booleanPointInPolygon(stop, zoneGeom) of @turf/boolean-point-in-polygon:
\* inside an outer ring, boundary included, and in none of its holes
booleanPointInPolygon(lng, lat, zoneGeom) ==
  LET polys == IF zoneGeom.type = "Polygon" THEN <<zoneGeom.coordinates>>
               ELSE zoneGeom.coordinates
  IN \E p \in DOMAIN polys :
       /\ inRing(lng, lat, polys[p][1], FALSE)
       /\ \A k \in 2..Len(polys[p]) : ~inRing(lng, lat, polys[p][k], TRUE)

\* step 1 of the first definition: the keys of the serving stations, or
\* the exception that ends the call. A station whose coordinates array is
\* empty gives L.latLng(undefined, undefined) = undefined, is in no contour,
\* and centreZone.distanceTo(undefined) throws a TypeError
RECURSIVE stationKeys(_, _, _)
stationKeys(stations, zoneFeature, cles) ==
  IF stations = <<>> THEN Returned(cles)
  ELSE LET station == Head(stations)
           rest == Tail(stations)
       IN IF station.geom \in {"none", "nocoord"}
          THEN stationKeys(rest, zoneFeature, cles)
          ELSE IF station.geom = "empty" THEN Threw
          ELSE LET dessertZone ==
                     \/ pointDansPolygoneGeoJSON(station.x, station.y,
                                                 zoneFeature.geometry)
                     \/ distanceWithin(centreZone(zoneFeature), station.x,
                                      station.y, DISTANCE_MAX_M)
                   mode == ToUpperCase(station.mode)
                   ligne == station.ligne
               IN IF dessertZone /\ mode # <<>> /\ ligne # <<>>
                  THEN stationKeys(rest, zoneFeature,
                                   SetAdd(cles, Cle(mode, ligne)))
                  ELSE stationKeys(rest, zoneFeature, cles)

\* step 1 of the second definition. A stop whose geometry has no coordinates
\* makes booleanPointInPolygon read pt[0] of undefined, a TypeError; one whose
\* coordinates array is empty is in no ring
RECURSIVE stopKeys(_, _, _)
stopKeys(stops, zoneGeom, keys) ==
  IF stops = <<>> THEN Returned(keys)
  ELSE LET stop == Head(stops)
           rest == Tail(stops)
       IN IF stop.geom = "none" THEN stopKeys(rest, zoneGeom, keys)
          ELSE IF stop.geom = "nocoord" THEN Threw
          ELSE IF stop.geom = "empty" THEN stopKeys(rest, zoneGeom, keys)
          ELSE LET mode == ToUpperCase(stop.mode)
                   ligne == stop.ligne
               IN IF /\ booleanPointInPolygon(stop.x, stop.y, zoneGeom)
                     /\ mode # <<>> /\ ligne # <<>>
                  THEN stopKeys(rest, zoneGeom, SetAdd(keys, Cle(mode, ligne)))
                  ELSE stopKeys(rest, zoneGeom, keys)

FallbackCouleur == "#999999"

\* props.couleur || "#999999"
couleurOf(props) == IF props.couleur # "" THEN props.couleur ELSE FallbackCouleur

skipLine_found(cles, dejaAjoutees, cle) == ~SetHas(cles, cle)

\* !clesLignesDansZone.has(cle) || clesDejaAjoutees.has(cle)
skipLine(cles, dejaAjoutees, cle) ==
  ~SetHas(cles, cle) \/ SetHas(dejaAjoutees, cle)

\* step 2: the catalog rows whose key was found, each key once
RECURSIVE catalogLines(_, _, _, _)
catalogLines(lignesTransport, cles, dejaAjoutees, resultat) ==
  IF lignesTransport = <<>>
  THEN [resultat |-> resultat, dejaAjoutees |-> dejaAjoutees]
  ELSE LET props == Head(lignesTransport)
           rest == Tail(lignesTransport)
           mode == ToUpperCase(props.mode)
           ligne == props.ligne
           cle == Cle(mode, ligne)
       IN IF mode = <<>> \/ ligne = <<>>
          THEN catalogLines(rest, cles, dejaAjoutees, resultat)
          ELSE IF skipLine(cles, dejaAjoutees, cle)
          THEN catalogLines(rest, cles, dejaAjoutees, resultat)
          ELSE catalogLines(rest, cles, SetAdd(dejaAjoutees, cle),
                 Append(resultat, [mode |-> mode, ligne |-> ligne,
                                   couleur |-> couleurOf(props)]))

\* step 3: the keys no catalog row carries, with the default colour
RECURSIVE missingLines(_, _, _)
missingLines(cles, dejaAjoutees, resultat) ==
  IF cles = <<>> THEN resultat
  ELSE LET cle == Head(cles)
       IN IF SetHas(dejaAjoutees, cle)
          THEN missingLines(Tail(cles), dejaAjoutees, resultat)
          ELSE missingLines(Tail(cles), dejaAjoutees,
                 Append(resultat, [mode |-> SplitCle(cle).mode,
                                   ligne |-> SplitCle(cle).ligne,
                                   couleur |-> FallbackCouleur]))

\* steps 2 and 3, the same in both definitions
linesOfKeys(cles, lignesTransport) ==
  IF cles = <<>> THEN <<>>
  ELSE LET step2 == catalogLines(lignesTransport, cles, <<>>, <<>>)
       IN missingLines(cles, step2.dejaAjoutees, step2.resultat)

\* getTransportsServingZone(zoneFeature), first definition of the file
getTransportsServingZone(zoneFeature, stations, lignesTransport) ==
  LET step1 == stationKeys(stations, zoneFeature, <<>>)
  IN IF step1.threw THEN Threw
     ELSE Returned(linesOfKeys(step1.value, lignesTransport))

\* getTransportsServingZone(zoneFeature), second definition of the file
getTransportsServingZone_turf(zoneFeature, stops, lines) ==
  LET step1 == stopKeys(stops, zoneFeature.geometry, <<>>)
  IN IF step1.threw THEN Threw
     ELSE Returned(linesOfKeys(step1.value, lines))

\* the definition the application runs
getTransportsServingZoneOf(definition, zoneFeature, stops, lines) ==
  IF definition = 1 THEN getTransportsServingZone(zoneFeature, stops, lines)
  ELSE getTransportsServingZone_turf(zoneFeature, stops, lines)

\* a closed ring around the box [x1, x2] x [y1, y2]
Box(x1, y1, x2, y2) ==
  <<<<x1, y1>>, <<x2, y1>>, <<x2, y2>>, <<x1, y2>>, <<x1, y1>>>>

\* territories: a strip, a square with an enclave, and two separate blocks
TransitZones ==
  {[id |-> "strip",
    geometry |-> [type |-> "Polygon",
                  coordinates |-> <<Box(0, 0, 16, 2)>>]],
   [id |-> "enclave",
    geometry |-> [type |-> "Polygon",
                  coordinates |-> <<Box(0, 0, 16, 16), Box(2, 2, 6, 6)>>]],
   [id |-> "blocks",
    geometry |-> [type |-> "MultiPolygon",
                  coordinates |-> <<<<Box(0, 0, 4, 2)>>, <<Box(12, 0, 16, 2)>>>>]]}

Stop(geom, x, y, mode, ligne) ==
  [geom |-> geom, x |-> x, y |-> y, mode |-> mode, ligne |-> ligne]

RER == <<"R", "E", "R">>
BUS == <<"B", "U", "S">>

\* features of state.data.stops
TransitStops ==
  {Stop("point", 1, 1, RER, <<"1">>),
   Stop("point", 8, 3, <<"r", "e", "r">>, <<"1">>),
   Stop("point", 8, 9, BUS, <<"2">>),
   Stop("point", 0, 0, BUS, <<"1">>),
   Stop("point", 3, 3, RER, <<"2">>),
   Stop("point", 8, 3, <<>>, <<"1">>),
   Stop("none", 0, 0, RER, <<"1">>),
   Stop("empty", 0, 0, RER, <<"1">>),
   Stop("nocoord", 0, 0, RER, <<"1">>)}

\* features of state.data.transports: their properties
TransitLines ==
  {[mode |-> RER, ligne |-> <<"1">>, couleur |-> "#FF0000"],
   [mode |-> <<"r", "e", "r">>, ligne |-> <<"1">>, couleur |-> "#0000FF"],
   [mode |-> BUS, ligne |-> <<"2">>, couleur |-> ""],
   [mode |-> <<>>, ligne |-> <<"2">>, couleur |-> "#00FF00"]}

TransitInit ==
  inTransit \in [definition : {1, 2}, zone : TransitZones,
                 stops : SeqUpTo(TransitStops, MaxStops),
                 lines : SeqUpTo(TransitLines, MaxLines)]

CallGetTransportsServingZone ==
  last' = [op |-> "getTransportsServingZone",
           arg |-> inTransit.zone.id,
           ret |-> getTransportsServingZoneOf(inTransit.definition,
                     inTransit.zone, inTransit.stops, inTransit.lines)]

\* the lines of a territory are computed each time it is clicked
TransitNext ==
  /\ CallGetTransportsServingZone
  /\ UNCHANGED <<cmpVars, filterVars, inputVars, navVars, dataVars, achatVars>>

(***************************************************************************)
(* Purchasing power : models/pouvoir-achat.model.js,                       *)
(* controllers/pouvoir-achat.controller.js                                 *)
(***************************************************************************)
\* let currentBudget = null; let currentResults = null; the results table is
\* hidden and no analysis has started
AchatInit ==
  achat = [currentBudget |-> NullNum, currentResults |-> NoList,
           shown |-> NoList, shownBudget |-> NullNum, inflight |-> <<>>]

\* prixCommune[communeId]: undefined when the territory has no price
PrixAt(prix, id) == IF id \in DOMAIN prix THEN prix[id] ELSE UndefNum

prixConnu_nonzero(prixM2) == ~Falsy(prixM2)

\* prixM2 && prixM2 > 0
prixConnu(prixM2) == ~Falsy(prixM2) /\ JsGT(prixM2, 0)

\* Math.floor(budget / prixM2), for a positive budget and a positive price
surfacePossible(budget, prixM2) == budget \div prixM2

before_strict(a, b) == a.surfacePossible > b.surfacePossible

\* (a, b) => b.surfacePossible - a.surfacePossible is not positive: a stays
\* before b (Array.prototype.sort is stable)
before(a, b) == a.surfacePossible >= b.surfacePossible

\* results.sort((a, b) => b.surfacePossible - a.surfacePossible)
RECURSIVE InsertDesc(_, _)
InsertDesc(x, s) ==
  IF s = <<>> THEN <<x>>
  ELSE IF before(Head(s), x) THEN <<Head(s)>> \o InsertDesc(x, Tail(s))
       ELSE <<x>> \o s
RECURSIVE SortDesc(_)
SortDesc(s) ==
  IF s = <<>> THEN <<>>
  ELSE InsertDesc(s[Len(s)], SortDesc(SubSeq(s, 1, Len(s) - 1)))

\* the loop shared by analyserPouvoirAchat and by the section branch of
\* analyserBudget: one entry per territory whose price is known
surfaces(budget, prix, features) ==
  LET kept == SelectSeq(features, LAMBDA f : prixConnu(PrixAt(prix, f.id)))
  IN [i \in 1..Len(kept) |->
        [id |-> kept[i].id, name |-> kept[i].nom,
         prixM2 |-> PrixAt(prix, kept[i].id),
         surfacePossible |-> surfacePossible(budget, PrixAt(prix, kept[i].id))]]

\* analyserPouvoirAchat(budget, prixCommune, geoCommunes)
analyserPouvoirAchat(budget, prixCommune, features) ==
  SortDesc(surfaces(budget, prixCommune, features))

\* getTopCommunes(results, n): results.slice(0, n)
getTopCommunes(results, n) ==
  SubSeq(results, 1, IF n < Len(results) THEN n ELSE Len(results))

\* territories of a catalog, by code
AchatIds ==
  {<<"7","5","0","5","6">>, <<"9","2","0","1","2">>, <<"7","7","0","0","1">>}
AchatNom(id) ==
  IF id = <<"7","5","0","5","6">> THEN "Paris 1er"
  ELSE IF id = <<"9","2","0","1","2">> THEN "Boulogne-Billancourt"
  ELSE "Acheres-la-Foret"
AchatFeature(id) == [id |-> id, nom |-> AchatNom(id)]

\* a price table entry: none, zero, negative or positive
PriceValues == {UndefNum, 0, -6000, 6000, 8000}
AchatBudgets == {17000, 300000}
TopSizes == {2, 5}

\* catalogs list each territory once
Catalogs ==
  {c \in SeqUpTo({AchatFeature(id) : id \in AchatIds}, MaxCatalog) :
     \A i, j \in DOMAIN c : c[i] = c[j] => i = j}

AchatInputs ==
  inAchat \in [budget : AchatBudgets, prix : [AchatIds -> PriceValues],
               features : Catalogs]

AchatResults == analyserPouvoirAchat(inAchat.budget, inAchat.prix, inAchat.features)

CallAnalyserPouvoirAchat ==
  last' = [op |-> "analyserPouvoirAchat", arg |-> inAchat.budget,
           ret |-> AchatResults]

\* results.sort(...) of analyserBudget, on the list analyserPouvoirAchat returned
CallSortResults ==
  last' = [op |-> "sortResults", arg |-> AchatResults,
           ret |-> SortDesc(AchatResults)]

CallGetTopCommunes(n) ==
  last' = [op |-> "getTopCommunes", arg |-> [results |-> AchatResults, n |-> n],
           ret |-> getTopCommunes(AchatResults, n)]

\* one budget, one price table and one catalog are analysed
AchatNext ==
  /\ \/ CallAnalyserPouvoirAchat
     \/ CallSortResults
     \/ \E n \in TopSizes : CallGetTopCommunes(n)
  /\ UNCHANGED <<cmpVars, filterVars, inputVars, navVars, dataVars, achatVars>>

\* main: state.data.prixCommune and state.data.prixSection
prixCommune == aggregateMedianByKey(dvf, "commune")
prixSection == aggregateMedianByKey(dvf, "section")

\* the features of a set of territories, in file order
RECURSIVE FeaturesOf(_)
FeaturesOf(ids) ==
  IF ids = {} THEN <<>>
  ELSE LET id == CHOOSE x \in ids : TRUE
       IN <<[id |-> CodeChars(id), nom |-> ZoneName(id)]>>
            \o FeaturesOf(ids \ {id})

\* const depts = ["75", "77", "78", "91", "92", "93", "94", "95"]
IdfDepts == <<"75", "77", "78", "91", "92", "93", "94", "95">>

\* allCommunes.features once every department has been loaded
RECURSIVE AllCommunes(_)
AllCommunes(depts) ==
  IF depts = <<>> THEN <<>>
  ELSE FeaturesOf(CommunesOf(Head(depts))) \o AllCommunes(Tail(depts))

\* parseFloat(budgetInput.value)
BudgetEntries == {0, 17000, 300000}

\* results.sort(...); currentResults = results; getTopCommunes(results, 5);
\* renderPouvoirAchatResults(top5, budget, analysisType)
storeResults(a, budget, results) ==
  [a EXCEPT !.currentResults = SomeList(SortDesc(results)),
            !.shown = SomeList(getTopCommunes(SortDesc(results), 5)),
            !.shownBudget = budget]

\* analyserBudget(budget) up to its first await, or to its end at section
\* scale, where nothing is awaited
analyserBudget(budget) ==
  LET a == [achat EXCEPT !.currentBudget = budget]
  IN IF nav.currentScale = "section" /\ nav.currentCommune # Undefined
     THEN achat' = storeResults(a, budget,
                     surfaces(budget, prixSection,
                       FeaturesOf(IF nav.currentSections = NoSections THEN {}
                                  ELSE nav.currentSections)))
     ELSE /\ Len(achat.inflight) < MaxAnalyses
          /\ achat' =
               [a EXCEPT !.inflight =
                  Append(@, [budget |-> budget,
                             type |-> IF /\ nav.currentScale = "commune"
                                         /\ nav.currentDept # Undefined
                                      THEN "commune" ELSE "global",
                             dept |-> nav.currentDept])]

\* click on "analyser": the budget must be a positive number
analyserClick(budget) ==
  /\ IF Falsy(budget) \/ budget <= 0
     THEN /\ UNCHANGED achat
          /\ last' = [op |-> "analyser", arg |-> budget, ret |-> "alert"]
     ELSE /\ analyserBudget(budget)
          /\ last' = [op |-> "analyser", arg |-> budget, ret |-> Null]
  /\ UNCHANGED <<cmpVars, filterVars, navVars, dataVars>>

\* analyserBudget after its loads have answered (the eight loads of the
\* global analysis are one suspension: nothing is read between them)
analyserBudget_resume(i) ==
  /\ i \in 1..Len(achat.inflight)
  /\ LET p == achat.inflight[i]
         features == IF p.type = "commune" THEN FeaturesOf(CommunesOf(p.dept))
                     ELSE AllCommunes(IdfDepts)
         a == [achat EXCEPT !.inflight = RemoveAt(@, i)]
     IN /\ achat' = storeResults(a, p.budget,
                      analyserPouvoirAchat(p.budget, prixCommune, features))
        /\ last' = [op |-> "analysisDone", arg |-> p.budget, ret |-> Null]
  /\ UNCHANGED <<cmpVars, filterVars, navVars, dataVars>>

\* click on the close button of the results table: resetPouvoirAchatAnalysis()
resetPouvoirAchatAnalysis ==
  /\ ~achat.shown.missing
  /\ achat' = [achat EXCEPT !.currentBudget = NullNum, !.currentResults = NoList,
                            !.shown = NoList]
  /\ last' = [op |-> "closeResults", arg |-> Null, ret |-> Null]
  /\ UNCHANGED <<cmpVars, filterVars, navVars, dataVars>>

\* the map and the purchasing-power dialog driven by the user, outside
\* comparison mode
BudgetNext ==
  /\ \/ (\E d \in Depts : onDepartmentClick(d)) /\ UNCHANGED achatVars
     \/ (\E i \in 1..MaxPending : onDepartmentClick_resume(i))
          /\ UNCHANGED achatVars
     \/ (\E l \in mapLayers, id \in ZoneIds : onCommuneClick(l, id))
          /\ UNCHANGED achatVars
     \/ (\E i \in 1..MaxPending : onCommuneClick_resume(i))
          /\ UNCHANGED achatVars
     \/ \E budget \in BudgetEntries : analyserClick(budget)
     \/ \E i \in 1..MaxAnalyses : analyserBudget_resume(i)
     \/ resetPouvoirAchatAnalysis
  /\ UNCHANGED <<filterVars, inputVars>>

(***************************************************************************)
(* Specifications                                                          *)
(***************************************************************************)
\* main: const { ventesByCommune, ventesBySection } = buildIndexes(dvf)
DataInit == indexes = buildIndexes(dvf)

\* nothing is given to the pure functions a specification does not call
NoTransit == inTransit = <<>>
NoAchat == inAchat = <<>>
NoInput ==
  /\ inVentes = <<>>
  /\ inTransports = <<>>
  /\ inValues = <<>>
  /\ NoTransit
  /\ NoAchat

Init == CmpInit /\ FilterInit /\ NoInput /\ NavInit /\ DataInit /\ AchatInit

StatsInit ==
  /\ CmpInit
  /\ FilterInit
  /\ inVentes \in SeqUpTo(Ventes, MaxList)
  /\ inTransports \in TransportLists
  /\ inValues = <<>>
  /\ NoTransit
  /\ NoAchat
  /\ NavInit
  /\ DataInit
  /\ AchatInit

\* lists of transactions in the shape the score reads
ScoreInit ==
  /\ CmpInit
  /\ FilterInit
  /\ inVentes \in SeqUpTo(RawVentes, MaxList)
  /\ inTransports \in TransportLists
  /\ inValues = <<>>
  /\ NoTransit
  /\ NoAchat
  /\ NavInit
  /\ DataInit
  /\ AchatInit

AggInit ==
  /\ CmpInit
  /\ FilterInit
  /\ NavInit
  /\ DataInit
  /\ AchatInit
  /\ NoTransit
  /\ NoAchat
  /\ inTransports = <<>>
  /\ \/ inVentes \in SeqUpTo(AggVentes, MaxList) /\ inValues = <<>>
     \/ inVentes = <<>> /\ inValues \in SeqUpTo(Values, MaxValues)

SpecCmp == Init /\ [][CmpNext]_vars

SpecAlias == Init /\ [][AliasNext]_vars

SpecFilter == Init /\ [][FilterNext]_vars

SpecStats == StatsInit /\ [][StatsNext]_vars

SpecNav == Init /\ [][NavNext]_vars

SpecAgg == AggInit /\ [][AggNext]_vars

SpecScore == ScoreInit /\ [][ScoreNext]_vars

\* one territory, one stop list and one line catalog, whose lines are computed
TransitSpecInit ==
  /\ CmpInit
  /\ FilterInit
  /\ inVentes = <<>>
  /\ inTransports = <<>>
  /\ inValues = <<>>
  /\ TransitInit
  /\ NoAchat
  /\ NavInit
  /\ DataInit
  /\ AchatInit

SpecMap == Init /\ [][MapNext]_vars

SpecBudget == Init /\ [][BudgetNext]_vars

SpecTransit == TransitSpecInit /\ [][TransitNext]_vars

\* one budget, one price table and one catalog, analysed
AchatSpecInit ==
  /\ CmpInit
  /\ FilterInit
  /\ inVentes = <<>>
  /\ inTransports = <<>>
  /\ inValues = <<>>
  /\ NoTransit
  /\ AchatInputs
  /\ NavInit
  /\ DataInit
  /\ AchatInit

SpecAchat == AchatSpecInit /\ [][AchatNext]_vars

(***************************************************************************)
(* Properties of the comparison set manager                                *)
(***************************************************************************)
\* the zones held by the comparison set, in order
StoredZones == [i \in 1..Len(comparisonZones) |-> heap[comparisonZones[i]]]

\* C1: addZone(zone) returns true and appends the zone at the end exactly
\* when the set holds fewer than 3 zones and no stored zone has the same id;
\* in every other case it returns false and the set is left as it was.
C1_AddZoneContract ==
  [][\A id \in ZoneIds : CallAddZone(id, FALSE) =>
       LET n == Len(comparisonZones)
           accepts == /\ n < 3
                      /\ \A i \in 1..n : StoredZones[i].id # id
       IN IF accepts
          THEN /\ last'.ret = TRUE
               /\ StoredZones' =
                    Append(StoredZones, ZoneData(id, ZoneName(id), Stats0, <<>>))
          ELSE /\ last'.ret = FALSE
               /\ StoredZones' = StoredZones]_vars

\* a fourth zone with a new id was refused while three zones were stored
C1_Witness ==
  /\ last.op = "addZone"
  /\ last.ret = FALSE
  /\ Len(comparisonZones) = 3
  /\ \A i \in 1..3 : StoredZones[i].id # last.arg

\* C2: after any sequence of addZone, removeZone, clearComparison and
\* toggleComparisonMode calls from the empty set, the set holds at most 3
\* zones and no two stored zones have the same id.
C2_BoundedDistinct ==
  /\ Len(comparisonZones) <= 3
  /\ \A i, j \in 1..Len(comparisonZones) :
       StoredZones[i].id = StoredZones[j].id => i = j

\* a zone already stored was offered again to a full set
C2_Witness ==
  /\ last.op = "addZone"
  /\ last.ret = FALSE
  /\ Len(comparisonZones) = 3
  /\ \E i \in 1..3 : StoredZones[i].id = last.arg

\* C3: removeZone(id) returns false and leaves the set unchanged when no
\* stored zone has that id; otherwise it removes exactly that zone, keeps the
\* others in their relative order and returns true.  clearComparison()
\* empties the set, so canAddZone() is true right after it.
C3_RemoveClearContract ==
  [][/\ \A id \in ZoneIds : CallRemoveZone(id) =>
          IF \A i \in 1..Len(comparisonZones) : StoredZones[i].id # id
          THEN /\ last'.ret = FALSE
               /\ StoredZones' = StoredZones
          ELSE /\ last'.ret = TRUE
               /\ StoredZones' = SelectSeq(StoredZones, LAMBDA z : z.id # id)
     /\ CallClearComparison =>
          /\ comparisonZones' = <<>>
          /\ last'.ret = TRUE]_vars

\* a zone was removed from a full set
C3_Witness ==
  /\ last.op = "removeZone"
  /\ last.ret = TRUE
  /\ Len(comparisonZones) = 2

\* C4: a stored zone is a copy taken at add time: a later change the caller
\* makes to the object it passed does not change the stored zone.
C4_StoredZoneIsSnapshot ==
  \A i \in 1..Len(comparisonZones) :
    heap[comparisonZones[i]] = snap[comparisonZones[i]]

(***************************************************************************)
(* Properties of the filter criteria and of matchesFilters                 *)
(***************************************************************************)
\* C6: the criteria change only through setFilters and resetFilters:
\* setFilters(partial) replaces exactly the criteria named in partial and
\* leaves the others; resetFilters() restores budget, surface, type = null
\* and transport = false; getFilters, matchesFilters, getFilteredStats,
\* calculateCompatibilityScore and a change of the object returned by
\* getFilters leave the criteria as they are.
C6_CriteriaFrame ==
  [][/\ activeFilters' # activeFilters =>
          last'.op \in {"setFilters", "resetFilters"}
     /\ last'.op = "setFilters" =>
          \A k \in FilterKeys :
            activeFilters'[k] = IF k \in last'.arg.named
                                THEN last'.arg.vals[k]
                                ELSE activeFilters[k]
     /\ last'.op = "resetFilters" =>
          /\ activeFilters'.budget = NullNum
          /\ activeFilters'.surface = NullNum
          /\ activeFilters'.type = Null
          /\ activeFilters'.transport = FALSE]_vars

\* the caller changed the object getFilters() returned while criteria were set
C6_Witness ==
  /\ last.op = "mutateFilters"
  /\ callerFilters # "none"
  /\ filterObjs[callerFilters] # activeFilters
  /\ activeFilters.budget # NullNum
  /\ activeFilters.type # Null

\* the criteria of matchesFilters, one by one, as the claim words them
BudgetFails(f, e) ==
  f.budget # NullNum /\ e.prixMedian \notin NonNumbers /\ e.prixMedian > f.budget
SurfaceFails(f, e) ==
  f.surface # NullNum /\ e.surfaceMin \notin NonNumbers /\ e.surfaceMin < f.surface
TypeFails(f, e) ==
  /\ f.type # Null
  /\ LET wanted == IF f.type = "1" THEN 1 ELSE 2
         types == IF e.typeLocal = NoArray THEN {}
                  ELSE {e.typeLocal[i] : i \in 1..Len(e.typeLocal)}
     IN wanted \notin types
TransitFails(f, t) == f.transport /\ t = <<>>

\* C7: matchesFilters returns false exactly when an active criterion fails
\* (median price above the budget, surface below the minimum, requested type
\* not among the entity's types, transit required and none present); an absent
\* criterion never rejects, so default criteria accept everything.
C7_MatchesFilters ==
  last.op = "matchesFilters" =>
    LET e == last.arg.entity
        t == last.arg.transports
        f == activeFilters
    IN /\ last.ret = FALSE <=>
            \/ BudgetFails(f, e)
            \/ SurfaceFails(f, e)
            \/ TypeFails(f, e)
            \/ TransitFails(f, t)
       /\ f = DefaultFilters => last.ret = TRUE

\* every criterion is active and the entity sits exactly on the budget
C7_Witness ==
  /\ last.op = "matchesFilters"
  /\ last.ret = TRUE
  /\ activeFilters.budget = 9500
  /\ last.arg.entity.prixMedian = 9500
  /\ activeFilters.surface # NullNum
  /\ activeFilters.type # Null
  /\ activeFilters.transport

(***************************************************************************)
(* Properties of getFilteredStats and calculateCompatibilityScore          *)
(***************************************************************************)
\* a transaction the statistics may use: positive surface and value
ValidVente(v) == v.surface_reelle_bati > 0 /\ v.valeur_fonciere > 0

\* the per-transaction criteria taken one by one
PassesCriteria(f, v, t) ==
  /\ f.budget # NullNum => v.valeur_fonciere <= f.budget
  /\ f.surface # NullNum => v.surface_reelle_bati >= f.surface
  /\ f.type = "1" => v.type_local = 1
  /\ f.type = "2" => v.type_local = 2
  /\ f.transport => t # <<>>

PriceM2(v) == v.valeur_fonciere \div v.surface_reelle_bati

\* x is the element of rank m (counted from 0) of the values of s in
\* ascending order
IsRank(x, s, m) ==
  /\ \E i \in 1..Len(s) : s[i] = x
  /\ Cardinality({i \in 1..Len(s) : s[i] < x}) <= m
  /\ m < Cardinality({i \in 1..Len(s) : s[i] <= x})

\* C8: getFilteredStats keeps exactly the transactions with surface > 0 and
\* value > 0 that satisfy every active criterion, in their order, and computes
\* the statistics from them only: ventes is their number, maisons and apparts
\* count each type (maisons + apparts <= ventes) and prixMedian is the element
\* at index floor(k/2) of their per-m2 prices sorted ascending.
C8_FilteredStats ==
  last.op = "getFilteredStats" =>
    LET f == activeFilters
        survivors == SelectSeq(inVentes,
                       LAMBDA v : ValidVente(v) /\ PassesCriteria(f, v, inTransports))
        k == Len(survivors)
        prices == [i \in 1..k |-> PriceM2(survivors[i])]
    IN /\ last.ret.ventesFiltered = survivors
       /\ last.ret.ventes = k
       /\ last.ret.maisons = Cardinality({i \in 1..k : survivors[i].type_local = 1})
       /\ last.ret.apparts = Cardinality({i \in 1..k : survivors[i].type_local = 2})
       /\ last.ret.maisons + last.ret.apparts <= last.ret.ventes
       /\ k > 0 => IsRank(last.ret.prixMedian, prices, k \div 2)

\* two of three transactions survive an active filter, with different prices:
\* the reported median is the upper one
C8_Witness ==
  /\ last.op = "getFilteredStats"
  /\ hasActiveFilters(activeFilters)
  /\ Len(inVentes) = 3
  /\ last.ret.ventes = 2
  /\ PriceM2(last.ret.ventesFiltered[1]) # PriceM2(last.ret.ventesFiltered[2])
  /\ last.ret.prixMedian >= PriceM2(last.ret.ventesFiltered[1])
  /\ last.ret.prixMedian >= PriceM2(last.ret.ventesFiltered[2])

\* C9: with all criteria at their default, getFilteredStats applied to
\* transactions as the loader produces them returns a count equal to the
\* number of those whose surface and value are both positive.
C9_DefaultCountOnLoadedVentes ==
  (/\ last.op = "getFilteredStats"
   /\ activeFilters = DefaultFilters
   /\ \A i \in 1..Len(inVentes) : inVentes[i] \in LoadedVentes) =>
    last.ret.ventes =
      Cardinality({i \in 1..Len(inVentes) :
                     inVentes[i].surface > 0 /\ inVentes[i].valeur_fonciere > 0})

OnlyBudgetActive(f) ==
  f.budget # NullNum /\ f.surface = NullNum /\ f.type = Null /\ ~f.transport

\* what the two functions report as passing, given the test a valid
\* transaction has to pass
BudgetOutcome(Passes(_)) ==
  LET passing == SelectSeq(inVentes, LAMBDA v : ValidVente(v) /\ Passes(v))
  IN /\ last.op = "getFilteredStats" => last.ret.ventesFiltered = passing
     /\ last.op = "calculateCompatibilityScore" =>
          last.ret.ventesCorrespondantes = Len(passing)

\* C10 as stated: with only a budget B active, a valid transaction passes
\* exactly when its total value is <= B x its surface.
C10_BudgetPerSquareMetre ==
  (/\ last.op \in {"getFilteredStats", "calculateCompatibilityScore"}
   /\ OnlyBudgetActive(activeFilters)) =>
    BudgetOutcome(LAMBDA v :
      v.valeur_fonciere <= activeFilters.budget * v.surface_reelle_bati)

\* C10 amended: with only a budget B active, a valid transaction passes
\* (in getFilteredStats and in calculateCompatibilityScore) exactly when its
\* total sale value is <= B, whatever its surface.
C10_BudgetOnTotalValue ==
  (/\ last.op \in {"getFilteredStats", "calculateCompatibilityScore"}
   /\ OnlyBudgetActive(activeFilters)) =>
    BudgetOutcome(LAMBDA v : v.valeur_fonciere <= activeFilters.budget)

\* a valid transaction within the budget is kept and a valid one above it is
\* dropped although its price per m2 is below the budget figure
C10_Witness ==
  /\ last.op = "getFilteredStats"
  /\ OnlyBudgetActive(activeFilters)
  /\ last.ret.ventes >= 1
  /\ \E i \in 1..Len(inVentes) :
       /\ ValidVente(inVentes[i])
       /\ inVentes[i].valeur_fonciere > activeFilters.budget
       /\ PriceM2(inVentes[i]) <= activeFilters.budget

\* C11 as stated: whenever no criterion is active, calculateCompatibilityScore
\* returns score 100 for every transaction list it is given.
C11_NoFilterScore100 ==
  (/\ last.op = "calculateCompatibilityScore"
   /\ activeFilters.budget = NullNum
   /\ activeFilters.surface = NullNum
   /\ activeFilters.type = Null
   /\ activeFilters.transport = FALSE) =>
    last.ret.score = 100

\* C11 amended: whenever no criterion is active, calculateCompatibilityScore
\* returns score 100 (with matched = total = length) for every non-empty list,
\* whatever it contains, invalid transactions included; for an empty list it
\* returns score 0.
C11_NoFilterScore100NonEmpty ==
  (/\ last.op = "calculateCompatibilityScore"
   /\ activeFilters.budget = NullNum
   /\ activeFilters.surface = NullNum
   /\ activeFilters.type = Null
   /\ activeFilters.transport = FALSE) =>
    IF Len(inVentes) > 0
    THEN /\ last.ret.score = 100
         /\ last.ret.ventesTotal = Len(inVentes)
         /\ last.ret.ventesCorrespondantes = Len(inVentes)
    ELSE last.ret.score = 0

\* no criterion is active and the list holds a transaction with surface 0:
\* the score is 100 all the same
C11_Witness ==
  /\ last.op = "calculateCompatibilityScore"
  /\ activeFilters = DefaultFilters
  /\ \E i \in 1..Len(inVentes) : ~ValidVente(inVentes[i])
  /\ last.ret.score = 100

\* C12: with at least one criterion active and a non-empty list, the score is
\* round(100 x matched / total), matched being the number of transactions
\* that pass the validity checks and every active criterion and total the
\* length of the list; for an empty or missing list the score, matched and
\* total are all 0.
C12_ScoreIsRoundedPercentage ==
  /\ last.op = "calculateCompatibilityScore(null)" =>
       last.ret = [score |-> 0, ventesTotal |-> 0, ventesCorrespondantes |-> 0]
  /\ last.op = "calculateCompatibilityScore" =>
       LET f == activeFilters
           n == Len(inVentes)
           m == Cardinality({i \in 1..n :
                  ValidVente(inVentes[i]) /\ PassesCriteria(f, inVentes[i], inTransports)})
           s == last.ret.score
       IN /\ n = 0 =>
               last.ret = [score |-> 0, ventesTotal |-> 0, ventesCorrespondantes |-> 0]
          /\ (n > 0 /\ (f.budget # NullNum \/ f.surface # NullNum
                          \/ f.type # Null \/ f.transport)) =>
               /\ last.ret.ventesTotal = n
               /\ last.ret.ventesCorrespondantes = m
               /\ 2 * n * s - n <= 200 * m
               /\ 200 * m < 2 * n * s + n

\* two of three transactions match an active criterion: 66.67 is rounded to 67
C12_Witness ==
  /\ last.op = "calculateCompatibilityScore"
  /\ hasActiveFilters(activeFilters)
  /\ last.ret.ventesTotal = 3
  /\ last.ret.ventesCorrespondantes = 2
  /\ last.ret.score = 67

\* C13: for every criteria state reached through setFilters / resetFilters and
\* every transaction list and transit list, the score is an integer between
\* 0 and 100 and the matched count never exceeds the total.
C13_ScoreWithinBounds ==
  last.op \in {"calculateCompatibilityScore", "calculateCompatibilityScore(null)"} =>
    /\ last.ret.score \in 0..100
    /\ last.ret.ventesCorrespondantes <= last.ret.ventesTotal

\* budget, type and transit criteria are active and only part of the list
\* matches
C13_Witness ==
  /\ last.op = "calculateCompatibilityScore"
  /\ activeFilters.budget # NullNum
  /\ activeFilters.type # Null
  /\ activeFilters.transport
  /\ last.ret.ventesCorrespondantes > 0
  /\ last.ret.ventesCorrespondantes < last.ret.ventesTotal

(***************************************************************************)
(* Properties of the aggregations and of the utilities                     *)
(***************************************************************************)
\* x is the median of the numbers of s: null for none, the element of middle
\* rank for an odd number, the mean of the two middle ranks for an even one
IsMedianOf(x, s) ==
  LET n == Len(s)
  IN IF n = 0 THEN x = NullNum
     ELSE IF n % 2 = 1 THEN IsRank(x, s, n \div 2)
     ELSE \E i, j \in 1..n :
            /\ IsRank(s[i], s, (n \div 2) - 1)
            /\ IsRank(s[j], s, n \div 2)
            /\ 2 * x = s[i] + s[j]

\* the reorderings of an array of n elements
Reorderings(n) == {p \in [1..n -> 1..n] : \A i, j \in 1..n : p[i] = p[j] => i = j}

\* C14: no statistics function reports 0 as the median of an empty set:
\* median of an empty array, computeStats of an empty list and getFilteredStats
\* when no transaction survives all report the median as null / undefined.
C14_EmptyMedianNeverZero ==
  /\ (last.op = "median" /\ Len(last.arg) = 0) => last.ret \in {NullNum, UndefNum}
  /\ (last.op = "try computeStats" /\ Len(last.arg.list) = 0) =>
       last.ret.value.prixMedian \in {NullNum, UndefNum}
  /\ (last.op = "try getFilteredStats" /\ ~last.ret.threw) =>
       (last.ret.value.ventes = 0 =>
          last.ret.value.prixMedian \in {NullNum, UndefNum})

\* C15: median(values) is null for an empty input, the central element of the
\* ascending order for an odd number of values and the average of the two
\* central elements for an even number; every reordering of the values gives
\* the same result, and the input array is left as it was.
C15_Median ==
  last.op = "median" =>
    /\ IsMedianOf(last.ret, last.arg)
    /\ \A p \in Reorderings(Len(last.arg)) :
         median([i \in 1..Len(last.arg) |-> last.arg[p[i]]]) = last.ret
    /\ inValues = last.arg

\* four values given out of order, the two central ones different
C15_Witness ==
  /\ last.op = "median"
  /\ Len(last.arg) = 4
  /\ last.arg[1] > last.arg[2]
  /\ last.ret \notin {last.arg[i] : i \in 1..4}
  /\ last.ret = 5

\* C16: computeQuantiles(values, n) returns n-1 thresholds for a non-empty
\* input (8 for n = 9), the i-th being the element at index floor(i x length / n)
\* of the values in ascending order, so each threshold is an input value and
\* the thresholds never decrease; for an empty input it returns [].
C16_ComputeQuantiles ==
  last.op = "computeQuantiles" =>
    LET v == last.arg.values
        n == last.arg.n
        q == last.ret
    IN IF Len(v) = 0 THEN q = <<>>
       ELSE /\ Len(q) = n - 1
            /\ n = 9 => Len(q) = 8
            /\ \A i \in 1..Len(q) :
                 /\ IsRank(q[i], v, (i * Len(v)) \div n)
                 /\ \E j \in 1..Len(v) : v[j] = q[i]
            /\ \A i \in 1..(Len(q) - 1) : q[i] <= q[i + 1]

\* the default 9 classes on four values given out of order: 8 thresholds
\* that run from the smallest value to the largest
C16_Witness ==
  /\ last.op = "computeQuantiles"
  /\ last.arg.n = 9
  /\ Len(last.arg.values) = 4
  /\ last.arg.values[1] > last.arg.values[2]
  /\ Len(last.ret) = 8
  /\ last.ret[1] = 2
  /\ last.ret[8] = 6

\* index of a palette colour, 0-based
PaletteIndex(c) == (CHOOSE i \in DOMAIN heatPalette : heatPalette[i] = c) - 1

\* C17: heatColorQuantile(value, thresholds) returns the palette colour whose
\* index is the first i with value <= thresholds[i], the last of the 9 colours
\* when the value exceeds every threshold and #cccccc for a null or NaN value;
\* with the 8 thresholds of computeQuantiles the index is within 0..8 and
\* never decreases when the value increases.
C17_HeatColorQuantile ==
  last.op = "heatColorQuantile" =>
    LET v == last.arg.value
        q == last.arg.quantiles
        below == {i \in 1..Len(q) : v <= q[i]}
    IN IF v \in {NullNum, UndefNum, NaN} THEN last.ret = "#cccccc"
       ELSE /\ below # {} =>
                 \E i \in below : /\ \A j \in below : i <= j
                                  /\ last.ret = heatPalette[i]
            /\ below = {} => last.ret = heatPalette[9]
            /\ (Len(q) = 8 /\ q = computeQuantiles(inValues, 9)) =>
                 /\ \E i \in 1..9 : last.ret = heatPalette[i]
                 /\ PaletteIndex(last.ret) \in 0..8
                 /\ \A w \in HeatValues \ {NullNum, UndefNum, NaN} :
                      w >= v => PaletteIndex(heatColorQuantile(w, q))
                                  >= PaletteIndex(last.ret)

\* a value that falls in a middle class of the 8 thresholds of computeQuantiles
C17_Witness ==
  /\ last.op = "heatColorQuantile"
  /\ Len(last.arg.quantiles) = 8
  /\ last.arg.quantiles = computeQuantiles(inValues, 9)
  /\ last.arg.value = 4
  /\ last.ret \in {heatPalette[i] : i \in 2..8}

\* C18: computeStats of a non-empty list returns ventes equal to the length,
\* prixMedian equal to the median of the per-m2 prices, house and apartment
\* counts whose sum is <= ventes, and for each type the median of that type's
\* prices, or null when the type has no transaction.
C18_ComputeStats ==
  (last.op = "try computeStats" /\ Len(last.arg.list) > 0) =>
    LET l == last.arg.list
        r == last.ret.value
        ofType(t) == SelectSeq(l, LAMBDA v : v.type = t)
    IN /\ ~last.ret.threw
       /\ r.ventes = Len(l)
       /\ IsMedianOf(r.prixMedian, PrixOf(l))
       /\ r.maisons = Cardinality({i \in 1..Len(l) : l[i].type = "Maison"})
       /\ r.apparts = Cardinality({i \in 1..Len(l) : l[i].type = "Appartement"})
       /\ r.maisons + r.apparts <= r.ventes
       /\ IsMedianOf(r.prixMaisons, PrixOf(ofType("Maison")))
       /\ IsMedianOf(r.prixApparts, PrixOf(ofType("Appartement")))

\* three sales of commune 75056 at 8000, 9000 and 10000 per m2, given out of
\* order: ventes 3 and prixMedian 9000
C18_Witness ==
  /\ last.op = "try computeStats"
  /\ Len(last.arg.list) = 3
  /\ {last.arg.list[i].prix : i \in 1..3} = {8000, 9000, 10000}
  /\ last.arg.list[1].prix = 10000
  /\ last.ret.value.ventes = 3
  /\ last.ret.value.prixMedian = 9000

AggOps ==
  {"try computeStats", "try computeStatsByDept", "try aggregateMedianByKey",
   "try buildIndexes", "try getFilteredStats", "try calculateCompatibilityScore"}

\* the list given to an aggregation, missing or not
ArgOf(l) == IF l.op = "try aggregateMedianByKey" THEN l.arg.data ELSE l.arg

\* C19: every aggregation function accepts an empty list and a null / missing
\* list alike and returns its zero statistics (zero counts, empty maps, null
\* median) without throwing.
C19_AggregationsAcceptNothing ==
  (last.op \in AggOps /\ Len(ArgOf(last).list) = 0) =>
    /\ ~last.ret.threw
    /\ last.op = "try computeStats" =>
         /\ last.ret.value.ventes = 0
         /\ last.ret.value.prixMedian = NullNum
    /\ last.op \in {"try computeStatsByDept", "try aggregateMedianByKey"} =>
         DOMAIN last.ret.value = {}
    /\ last.op = "try buildIndexes" =>
         \A k \in DOMAIN last.ret.value : DOMAIN last.ret.value[k] = {}
    /\ last.op = "try getFilteredStats" =>
         /\ last.ret.value.ventes = 0
         /\ last.ret.value.prixMedian = NullNum
    /\ last.op = "try calculateCompatibilityScore" =>
         /\ last.ret.value.score = 0
         /\ last.ret.value.ventesTotal = 0

\* the transactions of data whose field has the value key, in input order
WithKey(data, field, key) == SelectSeq(data, LAMBDA v : v[field] = key)

\* index is the lookup map of data by field
IsIndexOf(index, data, field) ==
  /\ DOMAIN index = {data[i][field] : i \in 1..Len(data)} \ {<<>>}
  /\ \A k \in DOMAIN index : index[k] = WithKey(data, field, k)

\* C20: buildIndexes(transactions) returns three lookup maps, by department,
\* by commune and by section; in each a transaction that has the key appears
\* once, in the list of its key and in input order, and one without the key
\* appears nowhere; so ventesByDept holds every transaction of each department.
C20_ThreeIndexes ==
  (last.op = "try buildIndexes" /\ ~last.arg.missing) =>
    /\ ~last.ret.threw
    /\ DOMAIN last.ret.value = {"ventesByDept", "ventesByCommune", "ventesBySection"}
    /\ IsIndexOf(last.ret.value.ventesByCommune, last.arg.list, "commune")
    /\ IsIndexOf(last.ret.value.ventesBySection, last.arg.list, "section")
    /\ IsIndexOf(last.ret.value.ventesByDept, last.arg.list, "dept")

(***************************************************************************)
(* Properties of the navigation                                            *)
(***************************************************************************)
ClickOps == {"onDepartmentClick", "onCommuneClick", "onSectionClick"}

\* C5: the comparison-mode flag gates every zone click. While the flag is on,
\* a click on a department, a commune or a section only attempts to add the
\* clicked zone and leaves the navigation state (scale, department, commune,
\* sections, layers of the state and of the map, loads in flight) unchanged;
\* while the flag is off, a click never changes the comparison set. Toggling
\* the flag never changes the comparison set, and adding, removing or
\* clearing zones never changes the flag.
C5_ModeGatesClicks ==
  [][ /\ (last'.op \in ClickOps /\ comparisonModeActive) =>
          (/\ UNCHANGED navVars
           /\ \/ StoredZones' = StoredZones
              \/ /\ Len(StoredZones') = Len(StoredZones) + 1
                 /\ SubSeq(StoredZones', 1, Len(StoredZones)) = StoredZones
                 /\ StoredZones'[Len(StoredZones')].id = last'.arg)
      /\ (last'.op \in ClickOps /\ ~comparisonModeActive) =>
          (/\ comparisonZones' = comparisonZones
           /\ StoredZones' = StoredZones)
      /\ (comparisonModeActive' # comparisonModeActive) =>
          (last'.op = "toggleComparisonMode")
      /\ (last'.op = "toggleComparisonMode") =>
          (/\ comparisonZones' = comparisonZones
           /\ StoredZones' = StoredZones)
      /\ (StoredZones' # StoredZones) =>
          (comparisonModeActive' = comparisonModeActive)]_vars

\* a commune was clicked in comparison mode after the map had been taken to
\* the commune scale, and the commune joined the comparison set
C5_Witness ==
  /\ last.op = "onCommuneClick"
  /\ comparisonModeActive
  /\ last.ret = TRUE
  /\ nav.currentScale = "commune"
  /\ layers.commune \in mapLayers
  /\ \E i \in 1..Len(comparisonZones) : StoredZones[i].id = "75056"

(***************************************************************************)
(* Properties of getTransportsServingZone                                  *)
(***************************************************************************)
TransitCalled == last.op = "getTransportsServingZone"

\* the stops the scan can attribute a line to
UsableStops ==
  {inTransit.stops[i] : i \in {j \in DOMAIN inTransit.stops :
      /\ inTransit.stops[j].geom = "point"
      /\ inTransit.stops[j].mode # <<>>
      /\ inTransit.stops[j].ligne # <<>>}}

StopKey(s) == [mode |-> ToUpperCase(s.mode), ligne |-> s.ligne]

\* the (mode, line) pairs of the returned entries
ResultKeys ==
  {[mode |-> last.ret.value[i].mode, ligne |-> last.ret.value[i].ligne] :
     i \in DOMAIN last.ret.value}

\* the territories are unions of boxes with box-shaped enclaves, so that
\* being inside or outside needs no ray
InBox(x, y, ring, strict) ==
  LET xs == {ring[i][1] : i \in DOMAIN ring}
      ys == {ring[i][2] : i \in DOMAIN ring}
  IN IF strict
     THEN SetMin(xs) < x /\ x < SetMax(xs) /\ SetMin(ys) < y /\ y < SetMax(ys)
     ELSE SetMin(xs) <= x /\ x <= SetMax(xs) /\ SetMin(ys) <= y /\ y <= SetMax(ys)

PolygonsOf(geometrie) ==
  IF geometrie.type = "Polygon" THEN {geometrie.coordinates}
  ELSE {geometrie.coordinates[p] : p \in DOMAIN geometrie.coordinates}

StrictlyInside(s, zone) ==
  \E poly \in PolygonsOf(zone.geometry) :
    /\ InBox(s.x, s.y, poly[1], TRUE)
    /\ \A k \in 2..Len(poly) : ~InBox(s.x, s.y, poly[k], FALSE)

StrictlyOutside(s, zone) ==
  \A poly \in PolygonsOf(zone.geometry) :
    \/ ~InBox(s.x, s.y, poly[1], FALSE)
    \/ \E k \in 2..Len(poly) : InBox(s.x, s.y, poly[k], TRUE)

\* at most 1000 m from the centre of the territory
Near(s, zone) == distanceWithin(centreZone(zone), s.x, s.y, 1000)

\* C21: a stop with a mode and a line counts as serving the territory exactly
\* when it is inside the territory's polygon or at most 1000 m from its
\* centre: the line of every such stop is returned, and every returned line
\* is the line of a stop that is not both outside the polygon and farther
\* than 1000 m (a stop on the outline may go either way)
C21_ServesInsideOrNear ==
  (TransitCalled /\ ~last.ret.threw) =>
    /\ \A s \in UsableStops :
         (StrictlyInside(s, inTransit.zone) \/ Near(s, inTransit.zone))
           => StopKey(s) \in ResultKeys
    /\ \A k \in ResultKeys :
         \E s \in UsableStops :
           /\ StopKey(s) = k
           /\ ~(StrictlyOutside(s, inTransit.zone) /\ ~Near(s, inTransit.zone))

\* whether the definition in use counts a stop as serving the territory
Serving(s) ==
  IF inTransit.definition = 1
  THEN \/ pointDansPolygoneGeoJSON(s.x, s.y, inTransit.zone.geometry)
       \/ distanceWithin(centreZone(inTransit.zone), s.x, s.y, DISTANCE_MAX_M)
  ELSE booleanPointInPolygon(s.x, s.y, inTransit.zone.geometry)

\* the catalog rows that carry a (mode, line) pair, in catalog order
RowsOfKey(k) ==
  SelectSeq(inTransit.lines,
            LAMBDA r : r.mode # <<>> /\ r.ligne # <<>>
                       /\ ToUpperCase(r.mode) = k.mode /\ r.ligne = k.ligne)

\* C22: the returned list has exactly one entry for each distinct
\* (mode, line) pair carried by a serving stop and none for any other pair;
\* the colour of an entry is that of the first catalog row with the same
\* pair (the fallback #999999 when that row carries no colour), and the
\* fallback #999999 when the catalog has no such row
C22_OneEntryPerKey ==
  (TransitCalled /\ ~last.ret.threw) =>
    LET res == last.ret.value
    IN /\ \A i, j \in DOMAIN res :
            (res[i].mode = res[j].mode /\ res[i].ligne = res[j].ligne) => i = j
       /\ ResultKeys = {StopKey(s) : s \in {u \in UsableStops : Serving(u)}}
       /\ \A i \in DOMAIN res :
            LET rows == RowsOfKey([mode |-> res[i].mode, ligne |-> res[i].ligne])
            IN res[i].couleur =
                 IF rows # <<>> /\ rows[1].couleur # "" THEN rows[1].couleur
                 ELSE "#999999"

\* two serving stops of one line and two catalog rows for it: one entry,
\* coloured by the first row
C22_Witness ==
  /\ TransitCalled
  /\ ~last.ret.threw
  /\ Len(last.ret.value) = 1
  /\ Cardinality({i \in DOMAIN inTransit.stops :
                    /\ inTransit.stops[i] \in UsableStops
                    /\ Serving(inTransit.stops[i])}) = 2
  /\ Len(RowsOfKey([mode |-> last.ret.value[1].mode,
                    ligne |-> last.ret.value[1].ligne])) = 2
  /\ last.ret.value[1].couleur = "#0000FF"

\* C23: a stop with malformed or missing geometry is skipped and never aborts
\* the scan: the call returns, and returns what it returns for the stop list
\* without these stops
C23_BadGeometrySkipped ==
  TransitCalled =>
    /\ ~last.ret.threw
    /\ last.ret =
         getTransportsServingZoneOf(inTransit.definition, inTransit.zone,
           SelectSeq(inTransit.stops, LAMBDA s : s.geom = "point"),
           inTransit.lines)

(***************************************************************************)
(* Properties of the purchasing-power analysis                             *)
(***************************************************************************)
\* the catalog positions whose territory has a price above zero
PricedPositions ==
  {i \in DOMAIN inAchat.features :
     LET p == inAchat.prix[inAchat.features[i].id]
     IN p # UndefNum /\ p > 0}

\* C24: analyserPouvoirAchat returns one entry for each catalog territory
\* whose price is known and above zero, none for a territory whose price is
\* missing, zero or negative, and the surface of an entry is
\* floor(budget / price)
C24_EntriesAndSurface ==
  (last.op = "analyserPouvoirAchat") =>
    LET res == last.ret
    IN /\ Len(res) = Cardinality(PricedPositions)
       /\ \A i \in PricedPositions :
            \E k \in DOMAIN res : res[k].id = inAchat.features[i].id
       /\ \A k \in DOMAIN res :
            /\ \E i \in PricedPositions : res[k].id = inAchat.features[i].id
            /\ res[k].prixM2 = inAchat.prix[res[k].id]
            /\ res[k].surfacePossible * res[k].prixM2 <= inAchat.budget
            /\ (res[k].surfacePossible + 1) * res[k].prixM2 > inAchat.budget

\* a budget of 300000 and a price of 6000 give 50 m2, next to territories
\* whose price is missing, zero and negative
C24_Witness ==
  /\ last.op = "analyserPouvoirAchat"
  /\ inAchat.budget = 300000
  /\ Len(inAchat.features) = 3
  /\ \E i \in DOMAIN inAchat.features :
       inAchat.prix[inAchat.features[i].id] \in {0, UndefNum}
  /\ \E i \in DOMAIN inAchat.features :
       inAchat.prix[inAchat.features[i].id] < 0
       /\ inAchat.prix[inAchat.features[i].id] # UndefNum
  /\ Len(last.ret) = 1
  /\ last.ret[1].prixM2 = 6000
  /\ last.ret[1].surfacePossible = 50

\* the position of a territory in the catalog
CatalogPos(id) == CHOOSE i \in DOMAIN inAchat.features : inAchat.features[i].id = id

\* surface descending, equal surfaces in catalog order
Ranked(res) ==
  \A i, j \in DOMAIN res :
    i < j =>
      \/ res[i].surfacePossible > res[j].surfacePossible
      \/ /\ res[i].surfacePossible = res[j].surfacePossible
         /\ CatalogPos(res[i].id) < CatalogPos(res[j].id)

\* C25: the result of analyserPouvoirAchat is ordered by surface descending,
\* territories with equal surfaces keeping their catalog order; the second
\* sort of the controller leaves that order; getTopCommunes(results, n) is
\* the first n entries of the list, the whole list when it has fewer
C25_RankedAndTop ==
  /\ (last.op = "analyserPouvoirAchat") => Ranked(last.ret)
  /\ (last.op = "sortResults") => (Ranked(last.ret) /\ last.ret = last.arg)
  /\ (last.op = "getTopCommunes") =>
       LET res == last.arg.results
           n == last.arg.n
       IN /\ Len(last.ret) = (IF Len(res) < n THEN Len(res) ELSE n)
          /\ \A i \in DOMAIN last.ret : last.ret[i] = res[i]

\* three priced territories, two of them with the same surface and the
\* larger surface last in the catalog; the top 2 drops the third
C25_Witness ==
  /\ last.op = "getTopCommunes"
  /\ last.arg.n = 2
  /\ Len(last.arg.results) = 3
  /\ Len(last.ret) = 2
  /\ last.arg.results[2].surfacePossible = last.arg.results[3].surfacePossible
  /\ last.arg.results[1].surfacePossible > last.arg.results[2].surfacePossible
  /\ CatalogPos(last.arg.results[1].id) = 3

(***************************************************************************)
(* Properties relating the aggregations                                    *)
(***************************************************************************)
RECURSIVE SumVentes(_, _)
SumVentes(stats, keys) ==
  IF keys = {} THEN 0
  ELSE LET k == CHOOSE x \in keys : TRUE
       IN stats[k].ventes + SumVentes(stats, keys \ {k})

\* C26: for every department d that has transactions, computeStatsByDept(T)[d]
\* carries the same count, median, house count and apartment count as
\* computeStats applied to the transactions of T whose department is d, there
\* is no entry for any other department, and the counts of all departments
\* add up to the length of T
C26_StatsByDeptAgree ==
  (last.op = "try computeStatsByDept" /\ ~last.arg.missing) =>
    LET T == last.arg.list
        r == last.ret.value
    IN /\ ~last.ret.threw
       /\ DOMAIN r = {T[i].dept : i \in 1..Len(T)}
       /\ \A d \in DOMAIN r :
            LET s == computeStats(WithKey(T, "dept", d))
            IN /\ r[d].ventes = s.ventes
               /\ r[d].prixMedian = s.prixMedian
               /\ r[d].maisons = s.maisons
               /\ r[d].apparts = s.apparts
       /\ SumVentes(r, DOMAIN r) = Len(T)

\* three transactions, two of one department around one of another
C26_Witness ==
  /\ last.op = "try computeStatsByDept"
  /\ ~last.arg.missing
  /\ Len(last.arg.list) = 3
  /\ last.arg.list[1].dept = last.arg.list[3].dept
  /\ last.arg.list[1].dept # last.arg.list[2].dept
  /\ last.arg.list[1].prix # last.arg.list[3].prix
  /\ last.ret.value[last.arg.list[1].dept].ventes = 2
  /\ last.ret.value[last.arg.list[2].dept].ventes = 1

(***************************************************************************)
(* Properties relating the score and the filtered statistics               *)
(***************************************************************************)
\* C28: for the same transaction list, the same transit list and the same
\* criteria, of which at least one is active, the matched count reported by
\* calculateCompatibilityScore is the number of transactions getFilteredStats
\* keeps
C28_ScoreCountIsStatsCount ==
  (/\ last.op = "calculateCompatibilityScore"
   /\ \/ activeFilters.budget # NullNum
      \/ activeFilters.surface # NullNum
      \/ activeFilters.type # Null
      \/ activeFilters.transport) =>
    last.ret.ventesCorrespondantes =
      getFilteredStats(activeFilters, last.arg.ventes, last.arg.transports).ventes

\* a budget and a type are set, and one of three transactions matches
C28_Witness ==
  /\ last.op = "calculateCompatibilityScore"
  /\ activeFilters.budget # NullNum
  /\ activeFilters.type # Null
  /\ Len(last.arg.ventes) = 3
  /\ last.ret.ventesCorrespondantes = 1
  /\ getFilteredStats(activeFilters, last.arg.ventes, last.arg.transports).ventes = 1

ShownOfKind(kind) == {l \in mapLayers : l.kind = kind}

\* C29: once every pending load has completed, the map shows at most one
\* commune layer and at most one section layer, each shown layer is the one
\* state.layers references, and currentScale is 'section' exactly when a
\* section layer is shown
C29_LayersSettle ==
  (pending = <<>>) =>
    /\ Cardinality(ShownOfKind("commune")) <= 1
    /\ Cardinality(ShownOfKind("section")) <= 1
    /\ \A l \in ShownOfKind("commune") : l = layers.commune
    /\ \A l \in ShownOfKind("section") : l = layers.section
    /\ (nav.currentScale = "section") <=> (ShownOfKind("section") # {})

(***************************************************************************)
(* Properties of the purchasing-power dialog                               *)
(***************************************************************************)
\* C30: whenever no analysis is in flight, the stored results are null
\* exactly when the stored budget is null, and otherwise the stored results
\* and the displayed ones are those computed for the stored budget: an
\* earlier analysis that completes later never overwrites the results of a
\* later submission, and never brings results back after they were closed
C30_ResultsMatchBudget ==
  (achat.inflight = <<>>) =>
    /\ achat.currentResults.missing <=> (achat.currentBudget = NullNum)
    /\ achat.shown.missing <=> achat.currentResults.missing
    /\ ~achat.currentResults.missing =>
         /\ \A k \in DOMAIN achat.currentResults.list :
              LET r == achat.currentResults.list[k]
              IN /\ r.surfacePossible * r.prixM2 <= achat.currentBudget
                 /\ (r.surfacePossible + 1) * r.prixM2 > achat.currentBudget
         /\ achat.shown.list = getTopCommunes(achat.currentResults.list, 5)
         /\ achat.shownBudget = achat.currentBudget

====
